---- MODULE Spec2Model ----
(***************************************************************************)
(* State-machine model of the workout-wizard recommendation core:          *)
(* FitnessRecommender (src/src/models/recommender.py), UserFeedbackSystem  *)
(* (src/improvements/user_feedback.py) and ImprovedGoalMatcher             *)
(* (src/improvements/improve_goal_matching.py).                            *)
(*                                                                         *)
(* Numbers.  The code works on floats; the model works on exact integers:  *)
(*   cosine similarities and content weights are in tenths,                *)
(*   rule and semantic goal scores are in hundredths,                      *)
(*   candidate scores are in units of 1/10000, so that the blend           *)
(*   0.3*cw*sim + 0.7*(0.6*rule + 0.4*sem) and the feedback factors 1.5,   *)
(*   0.3, 1.1 are exact on the values the model draws (multiples of ten    *)
(*   score units).  Percentages are the integers the code produces.        *)
(***************************************************************************)
EXTENDS Integers, Sequences, FiniteSets, TLC

(***************************************************************************)
(* Bounds of the model                                                     *)
(***************************************************************************)
MaxN == 2           \* num_recommendations ranges over 1..MaxN
MaxTime == 2        \* the clock stops advancing at MaxTime
MaxLog == 1         \* at most MaxLog feedback records are recorded
MaxRequests == 3    \* at most MaxRequests cached recommend calls are made
MaxHistory == 2     \* feedback records of the feedback-only specification
MaxStoreCalls == 3  \* record_feedback and load_feedback calls on the store
MaxThreadCalls == 4 \* recommend calls started by the concurrent threads
MaxLoads == 3       \* load_model calls on one recommender
MaxRows == 3          \* rows of a table passed to _diversify_recommendations
MaxGoals == 2         \* goals in a list passed to the goal matcher
MaxCacheCalls == 2    \* cached recommend calls when the cache is switched on and off

(***************************************************************************)
(* Program constants (the two cache constants are scaled down: one hour    *)
(* becomes two clock ticks, a thousand entries become two)                  *)
(***************************************************************************)
CacheTtl == 2
CacheMax == 2
DiversityFactorPct == 30     \* diversity_factor = 0.3, in hundredths

ENHANCEMENTS_AVAILABLE == TRUE
DEFAULT_CONTENT_WEIGHT == 10 \* 1.0 in tenths

None == "None"

\* None where the code expects a number or a time
NoneNum == -1

(***************************************************************************)
(* Generic helpers                                                         *)
(***************************************************************************)
Range(s) == {s[i] : i \in DOMAIN s}

Max2(a, b) == IF a >= b THEN a ELSE b

Min2(a, b) == IF a <= b THEN a ELSE b

\* pandas DataFrame.head(n) / list slice [:n], for n >= 0
Head_n(s, n) == SubSeq(s, 1, Min2(n, Len(s)))

Perms(n) == {p \in [1..n -> 1..n] : \A i, j \in 1..n : i # j => p[i] # p[j]}

\* numpy.round: round the rational num/den (den > 0) to the nearest integer,
\* halves to the even neighbour
RoundHalfEven(num, den) ==
    LET q == num \div den
        r == num % den
    IN  IF 2 * r < den THEN q
        ELSE IF 2 * r > den THEN q + 1
        ELSE IF q % 2 = 0 THEN q ELSE q + 1

\* int(x) of Python: truncate the rational num/den (den > 0) toward zero
TruncDiv(num, den) ==
    IF num >= 0 THEN num \div den ELSE -((-num) \div den)

(***************************************************************************)
(* Goal matcher tables (improve_goal_matching.py)                          *)
(***************************************************************************)
GOAL_RELATIONSHIPS ==
    [g \in {"Weight Loss", "Strength", "Hypertrophy", "General Fitness",
            "Athletic Performance", "Endurance", "Bodybuilding",
            "Powerlifting", "Muscle & Sculpting", "Bodyweight Fitness",
            "Athletics"} |->
       CASE g = "Weight Loss" ->
              {"Fat Loss", "Cutting", "Lean", "Endurance", "General Fitness"}
         [] g = "Strength" ->
              {"Powerlifting", "Power", "Athletic Performance", "Athletics",
               "General Fitness"}
         [] g = "Hypertrophy" ->
              {"Muscle Building", "Bodybuilding", "Mass Gain",
               "Muscle & Sculpting", "Strength"}
         [] g = "General Fitness" ->
              {"Health", "Wellness", "Conditioning", "Weight Loss", "Endurance"}
         [] g = "Athletic Performance" ->
              {"Sports", "Power", "Speed", "Agility", "Athletics", "Strength",
               "General Fitness"}
         [] g = "Endurance" ->
              {"Cardio", "Stamina", "Conditioning", "Weight Loss", "Athletics"}
         [] g = "Bodybuilding" ->
              {"Hypertrophy", "Muscle & Sculpting", "Aesthetics", "Strength"}
         [] g = "Powerlifting" -> {"Strength", "Max Strength", "Power"}
         [] g = "Muscle & Sculpting" ->
              {"Bodybuilding", "Hypertrophy", "Strength"}
         [] g = "Bodyweight Fitness" ->
              {"General Fitness", "Athletics", "Strength"}
         [] g = "Athletics" ->
              {"Athletic Performance", "Strength", "Power", "Endurance"}]

\* pair -> score in hundredths
GOAL_COMPATIBILITY ==
    [p \in {<<"Weight Loss", "Endurance">>, <<"Weight Loss", "Strength">>,
            <<"Strength", "Hypertrophy">>, <<"Strength", "Powerlifting">>,
            <<"Hypertrophy", "Bodybuilding">>,
            <<"Athletic Performance", "Strength">>,
            <<"Athletic Performance", "Endurance">>} |->
       CASE p = <<"Weight Loss", "Endurance">> -> 90
         [] p = <<"Weight Loss", "Strength">> -> 70
         [] p = <<"Strength", "Hypertrophy">> -> 80
         [] p = <<"Strength", "Powerlifting">> -> 95
         [] p = <<"Hypertrophy", "Bodybuilding">> -> 95
         [] p = <<"Athletic Performance", "Strength">> -> 85
         [] p = <<"Athletic Performance", "Endurance">> -> 80]

\* the lookup without the reverse direction
are_related_forward(goal1, goal2) ==
    goal1 \in DOMAIN GOAL_RELATIONSHIPS /\ goal2 \in GOAL_RELATIONSHIPS[goal1]

are_related(goal1, goal2) ==
    \/ goal1 \in DOMAIN GOAL_RELATIONSHIPS /\ goal2 \in GOAL_RELATIONSHIPS[goal1]
    \/ goal2 \in DOMAIN GOAL_RELATIONSHIPS /\ goal1 \in GOAL_RELATIONSHIPS[goal2]

get_compatibility(goal1, goal2) ==
    IF <<goal1, goal2>> \in DOMAIN GOAL_COMPATIBILITY
    THEN GOAL_COMPATIBILITY[<<goal1, goal2>>]
    ELSE IF <<goal2, goal1>> \in DOMAIN GOAL_COMPATIBILITY
    THEN GOAL_COMPATIBILITY[<<goal2, goal1>>]
    ELSE 0

\* one iteration of the double loop: the running maximum after the pair
PairStep(acc, user_goal, program_goal) ==
    LET a1 == IF are_related(user_goal, program_goal) THEN Max2(acc, 70) ELSE acc
        c == get_compatibility(user_goal, program_goal)
    IN  IF c > a1 THEN c ELSE a1

RECURSIVE InnerLoop(_, _, _, _)
InnerLoop(acc, user_goal, program_goals, j) ==
    IF j > Len(program_goals) THEN acc
    ELSE InnerLoop(PairStep(acc, user_goal, program_goals[j]),
                   user_goal, program_goals, j + 1)

RECURSIVE OuterLoop(_, _, _, _)
OuterLoop(acc, user_goals, program_goals, i) ==
    IF i > Len(user_goals) THEN acc
    ELSE OuterLoop(InnerLoop(acc, user_goals[i], program_goals, 1),
                   user_goals, program_goals, i + 1)

\* rule score in hundredths
calculate_goal_match_score(user_goals, program_goals) ==
    IF Len(user_goals) = 0 \/ Len(program_goals) = 0 THEN 0
    ELSE LET direct_matches ==
                 Cardinality(Range(user_goals) \cap Range(program_goals))
         IN  IF direct_matches > 0
             THEN Min2(100, 50 + direct_matches * 30)
             ELSE OuterLoop(0, user_goals, program_goals, 1)


(***************************************************************************)
(* Semantic goal matcher (SemanticGoalMatcher): the cosine of the TF-IDF   *)
(* vectors of the two keyword texts, as TfidfVectorizer() computes them on *)
(* the two texts: a term in both texts has idf ln(3/3) + 1 = 1, a term in  *)
(* one text has idf ln(3/2) + 1, whose square 1.9753 the model takes as    *)
(* 79/40.  The result is in hundredths, rounded to the nearest.            *)
(***************************************************************************)
goal_descriptions ==
    [g \in {"Weight Loss", "Strength", "Hypertrophy", "General Fitness",
            "Athletic Performance", "Endurance", "Bodybuilding",
            "Powerlifting", "Muscle & Sculpting", "Bodyweight Fitness"} |->
       CASE g = "Weight Loss" ->
              <<"lose", "weight", "fat", "burning", "calorie", "deficit",
                "cardio", "lean">>
         [] g = "Strength" ->
              <<"build", "strength", "power", "lifting", "heavy", "weights",
                "max", "strength">>
         [] g = "Hypertrophy" ->
              <<"muscle", "growth", "building", "mass", "size", "bodybuilding">>
         [] g = "General Fitness" ->
              <<"health", "fitness", "wellness", "conditioning", "overall">>
         [] g = "Athletic Performance" ->
              <<"sports", "performance", "athletics", "power", "speed",
                "agility">>
         [] g = "Endurance" ->
              <<"stamina", "cardio", "aerobic", "conditioning", "long",
                "distance">>
         [] g = "Bodybuilding" ->
              <<"aesthetics", "muscle", "definition", "symmetry",
                "bodybuilding">>
         [] g = "Powerlifting" ->
              <<"max", "strength", "squat", "bench", "deadlift", "powerlifting">>
         [] g = "Muscle & Sculpting" ->
              <<"tone", "sculpt", "definition", "lean", "muscle">>
         [] g = "Bodyweight Fitness" ->
              <<"calisthenics", "bodyweight", "gymnastics">>]

\* g.lower() split into tokens, for the goal names without a description
\* that the goal tables mention
LowerTokens(g) ==
    CASE g = "Athletics" -> <<"athletics">>
      [] g = "Power" -> <<"power">>
      [] g = "Cardio" -> <<"cardio">>
      [] OTHER -> <<g>>

\* ' '.join of the descriptions, as the list of its tokens
RECURSIVE GoalText(_)
GoalText(goals) ==
    IF goals = <<>> THEN <<>>
    ELSE (IF Head(goals) \in DOMAIN goal_descriptions
          THEN goal_descriptions[Head(goals)]
          ELSE LowerTokens(Head(goals))) \o GoalText(Tail(goals))

\* term frequency of word w in a text
TermCount(text, w) == Cardinality({i \in DOMAIN text : text[i] = w})

RECURSIVE SumOver(_, _)
SumOver(f, S) ==
    IF S = {} THEN 0
    ELSE LET x == CHOOSE y \in S : TRUE
         IN  f[x] + SumOver(f, S \ {x})

\* squares of the idf of a term in both texts and of a term in one text, in
\* fortieths
IdfSharedSq == 40

IdfSingleSq == 79

\* the integer nearest to 100 * sqrt(c2 / 10000), for c2 in 0..10000
SqrtHundredths(c2) ==
    CHOOSE r \in 0..100 :
       /\ r = 0 \/ (2 * r - 1) * (2 * r - 1) <= 4 * c2
       /\ 4 * c2 < (2 * r + 1) * (2 * r + 1)

calculate_semantic_similarity(user_goals, program_goals) ==
    LET user_text == GoalText(user_goals)
        program_text == GoalText(program_goals)
        shared == Range(user_text) \cap Range(program_text)
        dot == SumOver([w \in shared |->
                           TermCount(user_text, w) * TermCount(program_text, w)],
                       shared)
        NormSq(text) ==
            IdfSharedSq * SumOver([w \in shared |->
                                      TermCount(text, w) * TermCount(text, w)], shared)
            + IdfSingleSq * SumOver([w \in Range(text) \ shared |->
                                        TermCount(text, w) * TermCount(text, w)],
                                    Range(text) \ shared)
    IN  IF dot = 0 THEN 0
        ELSE IF Range(user_text) = Range(program_text)
                /\ \A w \in shared : TermCount(user_text, w) = TermCount(program_text, w)
        THEN 100
        ELSE SqrtHundredths(
                 ((((IdfSharedSq * IdfSharedSq * 100 * dot * dot)
                       \div NormSq(user_text)) * 100) \div NormSq(program_text)))

\* goal affinity in thousandths: 0.6 * rule + 0.4 * semantic
calculate_enhanced_goal_score(user_goals, program_goals) ==
    IF ~ENHANCEMENTS_AVAILABLE
    THEN IF Len(user_goals) = 0 \/ Len(program_goals) = 0 THEN 0
         ELSE Min2(1000,
                   (1000 * Cardinality(Range(user_goals) \cap Range(program_goals)))
                       \div Len(user_goals))
    ELSE calculate_goal_match_score(user_goals, program_goals) * 6
         + calculate_semantic_similarity(user_goals, program_goals) * 4

(***************************************************************************)
(* Feedback log (UserFeedbackSystem).  feedback_data maps a user id to the *)
(* list of that user's entries; an entry keeps program_id and              *)
(* feedback_type (rating, timestamp and metadata are never read back).     *)
(***************************************************************************)
FeedbackTypes ==
    {"viewed", "started", "completed", "liked", "disliked", "skipped", "rated"}

DictGet(d, k, default) == IF k \in DOMAIN d THEN d[k] ELSE default

ProgramsOfType(user_feedback, t) ==
    LET sel == SelectSeq(user_feedback, LAMBDA e : e.feedback_type = t)
    IN  [i \in 1..Len(sel) |-> sel[i].program_id]

get_user_preferences(fd, user_id) ==
    IF user_id \notin DOMAIN fd THEN <<>>
    ELSE [liked_programs |-> ProgramsOfType(fd[user_id], "liked"),
          completed_programs |-> ProgramsOfType(fd[user_id], "completed"),
          disliked_programs |-> ProgramsOfType(fd[user_id], "disliked"),
          total_interactions |-> Len(fd[user_id])]

\* the priority of the branches with disliked tested before liked
adjust_disliked_first(fd, user_id, program_id, base_score) ==
    LET preferences == get_user_preferences(fd, user_id)
    IN  IF program_id \in Range(DictGet(preferences, "disliked_programs", <<>>))
        THEN (base_score * 3) \div 10
        ELSE IF program_id \in Range(DictGet(preferences, "liked_programs", <<>>))
        THEN (base_score * 15) \div 10
        ELSE IF program_id \in Range(DictGet(preferences, "completed_programs", <<>>))
        THEN (base_score * 11) \div 10
        ELSE base_score

\* base_score and the result are in score units; base_score is a multiple of 10
adjust_recommendation_score(fd, user_id, program_id, base_score) ==
    LET preferences == get_user_preferences(fd, user_id)
    IN  IF program_id \in Range(DictGet(preferences, "liked_programs", <<>>))
        THEN (base_score * 15) \div 10
        ELSE IF program_id \in Range(DictGet(preferences, "disliked_programs", <<>>))
        THEN (base_score * 3) \div 10
        ELSE IF program_id \in Range(DictGet(preferences, "completed_programs", <<>>))
        THEN (base_score * 11) \div 10
        ELSE base_score


(***************************************************************************)
(* Inputs: user profiles (validated UserProfile objects) and the model     *)
(* files load_model reads                                                   *)
(***************************************************************************)
ProfileA == [user_id |-> "u1", goals |-> <<"Strength">>, equipment |-> "Full Gym"]

ProfileB == [user_id |-> None, goals |-> <<"Endurance">>, equipment |-> "At Home"]

ProfileC == [user_id |-> "u1", goals |-> <<"Endurance">>, equipment |-> "Dumbbell Only"]

Profiles == {ProfileA, ProfileB, ProfileC}

Users == {"u1"}

ModelFiles == {1}

\* processed_programs.csv of a model file: the rows of programs_df
ProgramsCsv(m) ==
    << [program_id |-> "P1", goal |-> "Strength", primary_goal |-> "Strength",
        equipment |-> "Full Gym", training_style |-> "Full Body"],
       [program_id |-> "P2", goal |-> "Strength", primary_goal |-> "Strength",
        equipment |-> "Full Gym", training_style |-> "Upper/Lower"],
       [program_id |-> "P3", goal |-> "Powerlifting", primary_goal |-> "Powerlifting",
        equipment |-> "Garage Gym", training_style |-> "Full Body"],
       [program_id |-> "P4", goal |-> "Endurance", primary_goal |-> "Endurance",
        equipment |-> "At Home", training_style |-> "Push/Pull/Legs"] >>

\* program_features.csv of a model file: the index (program ids) of
\* program_features_df
FeaturesIndex(m) == <<"P1", "P2", "P3", "P4">>

\* model_components.get('content_weight', DEFAULT_CONTENT_WEIGHT), in tenths
FileContentWeight(m) == DEFAULT_CONTENT_WEIGHT

ProgramIds == {"P1", "P2", "P3", "P4"}

\* cosine_similarity(user_vector, program_features_df.values)[0][i], in tenths:
\* the user vector is encoded by transformer tf, the rows come from file ff
CosineSimilarity(tf, ff, profile, i) ==
    CASE profile = ProfileA -> <<10, 5, 9, -2>>[i]
      [] profile = ProfileB -> <<-1, -2, -3, 5>>[i]
      [] profile = ProfileC -> <<0, 0, -1, -5>>[i]
      [] OTHER -> 0

(***************************************************************************)
(* The scoring pipeline of recommend, as functions of the model data the   *)
(* recommender holds (tf, ff, pf: the files the transformer, the feature   *)
(* table and the program table were loaded from) and the feedback log fd.  *)
(* numpy's argsort and pandas' sort_values use an unstable sort, so each   *)
(* of them yields a set of possible orders (ties in any order); Python's   *)
(* sorted is stable.                                                       *)
(***************************************************************************)
\* md5 of json.dumps(model_dump(), sort_keys=True): the digest of the field
\* values in field-name order
get_cache_key(user_profile) ==
    <<user_profile.equipment, user_profile.goals, user_profile.user_id>>

\* the orders sort_values(by, ascending=False) may produce; keys[i] is the
\* value of the sort column in rows[i]
DescOrders(rows, keys) ==
    {[i \in 1..Len(rows) |-> rows[q[i]]] :
        q \in {p \in Perms(Len(rows)) :
                 \A i \in 1..(Len(rows) - 1) : keys[p[i]] >= keys[p[i + 1]]}}

\* the orders similarities[0].argsort() may produce
ArgsortOrders(tf, ff, profile) ==
    LET n == Len(FeaturesIndex(ff))
    IN  {p \in Perms(n) :
           \A i \in 1..(n - 1) : CosineSimilarity(tf, ff, profile, p[i])
                                   <= CosineSimilarity(tf, ff, profile, p[i + 1])}

\* argsort()[-top_n:][::-1] for one argsort order, then the (id, score) list
TopIndices(order, top_n) ==
    LET n == Len(order)
        k == Min2(top_n, n)
    IN  [i \in 1..k |-> order[n + 1 - i]]

content_based_recommendations(tf, ff, profile, top_n) ==
    LET index == <<profile.user_id>>
        user_id == IF profile.user_id # None THEN profile.user_id ELSE index[1]
    IN  IF user_id \notin Range(index) THEN {<<>>}
        ELSE {LET top == TopIndices(order, top_n)
              IN  [i \in 1..Len(top) |->
                     [program_id |-> FeaturesIndex(ff)[top[i]],
                      similarity |-> CosineSimilarity(tf, ff, profile, top[i])]]
              : order \in ArgsortOrders(tf, ff, profile)}

ProgramRow(pf, program_id) ==
    LET rows == ProgramsCsv(pf)
    IN  rows[CHOOSE i \in 1..Len(rows) :
                /\ rows[i].program_id = program_id
                /\ \A j \in 1..(i - 1) : rows[j].program_id # program_id]

\* the score of one candidate (lines 390-412), in score units
CandidateScore(pf, fd, cw, profile, apply_feedback, program_id, similarity) ==
    LET score0 == cw * similarity
        ids == {ProgramsCsv(pf)[i].program_id : i \in 1..Len(ProgramsCsv(pf))}
        blended ==
            IF ENHANCEMENTS_AVAILABLE /\ program_id \in ids
            THEN 30 * score0
                 + 7 * calculate_enhanced_goal_score(
                           profile.goals, <<ProgramRow(pf, program_id).goal>>)
            ELSE 100 * score0
    IN  IF apply_feedback /\ ENHANCEMENTS_AVAILABLE /\ profile.user_id # None
        THEN adjust_recommendation_score(fd, profile.user_id, program_id, blended)
        ELSE blended

\* sorted(rec_scores.items(), key=score, reverse=True): stable
RECURSIVE InsertDesc(_, _)
InsertDesc(sorted, x) ==
    IF sorted = <<>> THEN <<x>>
    ELSE IF Head(sorted).score >= x.score
         THEN <<Head(sorted)>> \o InsertDesc(Tail(sorted), x)
         ELSE <<x>> \o sorted

RECURSIVE SortedRecs(_)
SortedRecs(items) ==
    IF items = <<>> THEN <<>>
    ELSE InsertDesc(SortedRecs(SubSeq(items, 1, Len(items) - 1)), items[Len(items)])


\* line 228, int(match_percentage * penalty), with the penalty the product
\* of n1/100, n2/100 and n3/200.  The product is a double: where the exact
\* product is an integer the double can fall just short of it, and int()
\* then gives one less in magnitude.  With the factors 0.7 and 0.85 and a
\* percentage of magnitude up to 200 this happens for 0.7 * 90, 0.7 * 170,
\* 0.7 * 180 and 0.7 * 0.7 * 100, 0.7 * 0.7 * 200.
FloatShort(pct, n1, n2, n3) ==
    LET magnitude == IF pct >= 0 THEN pct ELSE -pct
    IN  \/ n1 * n2 = 7000 /\ n3 = 200 /\ magnitude \in {90, 170, 180}
        \/ n1 * n2 = 4900 /\ n3 = 200 /\ magnitude \in {100, 200}

TruncProduct(pct, n1, n2, n3) ==
    LET exact == TruncDiv(pct * n1 * n2 * n3, 100 * 100 * 200)
    IN  IF ~FloatShort(pct, n1, n2, n3) THEN exact
        ELSE IF pct > 0 THEN exact - 1 ELSE exact + 1

\* the loop of _diversify_recommendations over the rows from position i on
RECURSIVE DiversifyWalk(_, _, _, _, _)
DiversifyWalk(recs, i, seen_styles, seen_goals, seen_equipment) ==
    IF i > Len(recs) THEN <<>>
    ELSE LET program == recs[i]
             n1 == IF program.training_style \in seen_styles
                   THEN 100 - DiversityFactorPct ELSE 100
             n2 == IF program.primary_goal \in seen_goals
                   THEN 100 - DiversityFactorPct ELSE 100
             n3 == IF program.equipment \in seen_equipment
                   THEN 200 - DiversityFactorPct ELSE 200
             penalized ==
                 [program EXCEPT !.match_percentage =
                     TruncProduct(program.match_percentage, n1, n2, n3)]
         IN  <<penalized>> \o
             DiversifyWalk(recs, i + 1,
                           seen_styles \cup {program.training_style},
                           seen_goals \cup {program.primary_goal},
                           seen_equipment \cup {program.equipment})

\* the walk without the final sort_values
diversify_recommendations_unsorted(recommendations) ==
    {DiversifyWalk(recommendations, 1, {}, {}, {})}

\* the possible results of _diversify_recommendations(recommendations, 0.3)
diversify_recommendations(recommendations) ==
    LET walked == DiversifyWalk(recommendations, 1, {}, {}, {})
    IN  DescOrders(walked, [i \in 1..Len(walked) |-> walked[i].match_percentage])

SetMax(S) == CHOOSE x \in S : \A y \in S : x >= y

\* lines 416-440: the candidate rows with match_score and match_percentage,
\* in the order of programs_df
CandidateRows(pf, rec_scores, initial_count) ==
    LET sorted_recs == SortedRecs(rec_scores)
        top == Head_n(sorted_recs, initial_count)
        top_programs == {top[i].program_id : i \in 1..Len(top)}
        score_of(id) ==
            sorted_recs[CHOOSE i \in 1..Len(sorted_recs) :
                          sorted_recs[i].program_id = id].score
        picked == SelectSeq(ProgramsCsv(pf),
                            LAMBDA r : r.program_id \in top_programs)
        scores == {score_of(picked[i].program_id) : i \in 1..Len(picked)}
        max_score == IF scores = {} THEN 0 ELSE SetMax(scores)
    IN  [i \in 1..Len(picked) |->
           [program_id |-> picked[i].program_id,
            primary_goal |-> picked[i].primary_goal,
            equipment |-> picked[i].equipment,
            training_style |-> picked[i].training_style,
            match_score |-> score_of(picked[i].program_id),
            match_percentage |->
                IF max_score > 0
                THEN RoundHalfEven(score_of(picked[i].program_id) * 100, max_score)
                ELSE 0]]

\* recommended_programs[result_columns].head(num_recommendations)
ResultOf(rows, n) ==
    LET h == Head_n(rows, n)
    IN  [i \in 1..Len(h) |->
           [program_id |-> h[i].program_id,
            primary_goal |-> h[i].primary_goal,
            equipment |-> h[i].equipment,
            training_style |-> h[i].training_style,
            match_percentage |-> h[i].match_percentage]]

\* lines 388-414: rec_scores, in the order of content_recs
RecScores(pf, fd, cw, profile, apply_feedback, content_recs) ==
    [i \in 1..Len(content_recs) |->
       [program_id |-> content_recs[i].program_id,
        score |-> CandidateScore(pf, fd, cw, profile, apply_feedback,
                                 content_recs[i].program_id,
                                 content_recs[i].similarity)]]

\* line 443: the orders sort_values('match_score', ascending=False) may give
RankedRows(rows) ==
    DescOrders(rows, [i \in 1..Len(rows) |-> rows[i].match_score])

\* lines 446-450
FinalRows(rows, n, diversify) ==
    IF diversify /\ Len(rows) > n THEN diversify_recommendations(rows)
    ELSE {rows}

\* lines 364-462 of recommend: every result the computation may produce
RecommendResults(tf, ff, pf, self_cw, fd, profile, n, cw_arg, diversify, apply_feedback) ==
    LET cw == IF cw_arg = NoneNum THEN self_cw ELSE cw_arg
        multiplier == IF diversify THEN 3 ELSE 2
        initial_count == IF diversify THEN n * 2 ELSE n
    IN  UNION { UNION { {ResultOf(d, n) : d \in FinalRows(rows, n, diversify)}
                        : rows \in RankedRows(
                              CandidateRows(pf,
                                  RecScores(pf, fd, cw, profile, apply_feedback,
                                            content_recs),
                                  initial_count)) }
                : content_recs \in
                    content_based_recommendations(tf, ff, profile, n * multiplier) }

(***************************************************************************)
(* Input sets of the requests, and the pipeline tabulated over them (the   *)
(* table holds RecommendResults for every argument the requests draw, so   *)
(* that it is evaluated once per argument rather than once per state)      *)
(***************************************************************************)
ContentWeightArgs == {NoneNum}

\* the feedback the service's clients send, and the feedback library callers
\* record
RecordedTypes == {"disliked"}

LibraryTypes == {"liked", "disliked", "completed"}

RecordedPrograms == {"P1"}

RECURSIVE EntrySeqs(_, _)
EntrySeqs(E, k) ==
    IF k = 0 THEN {<<>>}
    ELSE LET shorter == EntrySeqs(E, k - 1)
         IN  shorter \cup {Append(q, e) : q \in shorter, e \in E}

TabulatedLogs ==
    LET E == [program_id : RecordedPrograms,
              feedback_type : RecordedTypes \cup LibraryTypes]
    IN  {<<>>} \cup
        UNION {{[x \in {u} |-> q] : q \in EntrySeqs(E, MaxLog) \ {<<>>}} : u \in Users}

ResultsTable ==
    [a \in [tf : ModelFiles, ff : ModelFiles, pf : ModelFiles,
            self_cw : {FileContentWeight(m) : m \in ModelFiles},
            fd : TabulatedLogs, profile : Profiles, n : 1..MaxN,
            cw_arg : ContentWeightArgs, diversify : BOOLEAN,
            apply_feedback : BOOLEAN] |->
       RecommendResults(a.tf, a.ff, a.pf, a.self_cw, a.fd, a.profile, a.n,
                        a.cw_arg, a.diversify, a.apply_feedback)] @@ <<>>

ComputedResults(tf, ff, pf, self_cw, fd, profile, n, cw_arg, diversify, apply_feedback) ==
    LET a == [tf |-> tf, ff |-> ff, pf |-> pf, self_cw |-> self_cw, fd |-> fd,
              profile |-> profile, n |-> n, cw_arg |-> cw_arg,
              diversify |-> diversify, apply_feedback |-> apply_feedback]
    IN  IF a \in DOMAIN ResultsTable THEN ResultsTable[a]
        ELSE RecommendResults(tf, ff, pf, self_cw, fd, profile, n, cw_arg,
                              diversify, apply_feedback)

(***************************************************************************)
(* State                                                                   *)
(***************************************************************************)
VARIABLES
    model_loaded,           \* FitnessRecommender.model_loaded
    transformer,            \* the model file the field was loaded from, 0 = None
    encoded_feature_names,
    content_weight,         \* self.content_weight, in tenths
    programs_df,
    program_features_df,
    cache,                  \* self._cache: list of [key, value] in dict order
    cache_timestamps,       \* self._cache_timestamps: key -> insertion time
    cache_hits,
    cache_misses,
    feedback_data,          \* UserFeedbackSystem.feedback_data
    store_file,             \* contents of storage_path, or Absent
    backup_file,            \* contents of storage_path.backup, or Absent
    now,                    \* datetime.now()
    last,                   \* the last recommend call: arguments and outcome
    stored,                 \* history: key -> the call that stored the entry
    adjusted,               \* the last adjust_recommendation_score call
    save_pc,                \* position of the running save_feedback call
    tmp_file,               \* the temporary file of the running save_feedback
    fb_outcome,             \* the last record_feedback / load_feedback call
    calls,                  \* history: user id -> records loaded or recorded
    threads,                \* concurrent recommend calls: position and locals
    loading,                \* the running load_model call
    probe                   \* the last call of a function of the input layer

modelVars == <<model_loaded, transformer, encoded_feature_names, content_weight,
               programs_df, program_features_df>>

cacheVars == <<cache, cache_timestamps, cache_hits, cache_misses>>

feedbackVars == <<feedback_data, store_file, backup_file>>

storeVars == <<save_pc, tmp_file, fb_outcome, calls>>

vars == <<modelVars, cacheVars, feedbackVars, now, last, stored, adjusted,
          storeVars, threads, loading, probe>>

\* a file that does not exist
Absent == [exists |-> FALSE, whole |-> FALSE, data |-> <<>>]

\* a file holding the complete JSON dump of data
FileWith(data) == [exists |-> TRUE, whole |-> TRUE, data |-> data]

\* a file holding an incomplete dump of data: json.load raises on it
Partial(data) == [exists |-> TRUE, whole |-> FALSE, data |-> data]

NoCall ==
    [op |-> "none", profile |-> ProfileA, n |-> 1, content_weight |-> NoneNum,
     use_cache |-> FALSE, diversify |-> FALSE, apply_feedback |-> FALSE,
     at |-> 0, outcome |-> "none", result |-> <<>>]

NoAdjust == [user_id |-> None, program_id |-> None, base_score |-> 0, result |-> 0]

\* no record_feedback or load_feedback call yet
NoStoreCall == [op |-> "none", seq |-> 0, outcome |-> "none"]

\* the threads that serve recommend requests concurrently
Threads == {"t1", "t2"}

IdleThread == [pc |-> "idle", profile |-> ProfileA, result |-> <<>>,
               oldest_key |-> None, outcome |-> "none", started |-> 0]

\* no load_model call yet; m counts the calls made
NotLoading == [m |-> 0, stage |-> 0, active |-> FALSE]

NoProbe == [op |-> "none"]

\* the number of records per user in a log
CallsOf(fd) == [u \in DOMAIN fd |-> Len(fd[u])]

\* FitnessRecommender.__init__ and UserFeedbackSystem.__init__ with no
\* feedback file on disk
Init ==
    /\ model_loaded = FALSE
    /\ transformer = 0
    /\ encoded_feature_names = 0
    /\ content_weight = DEFAULT_CONTENT_WEIGHT
    /\ programs_df = 0
    /\ program_features_df = 0
    /\ cache = <<>>
    /\ cache_timestamps = <<>>
    /\ cache_hits = 0
    /\ cache_misses = 0
    /\ feedback_data = <<>>
    /\ store_file = Absent
    /\ backup_file = Absent
    /\ now = 0
    /\ last = NoCall
    /\ stored = <<>>
    /\ adjusted = NoAdjust
    /\ save_pc = "idle"
    /\ tmp_file = Absent
    /\ fb_outcome = NoStoreCall
    /\ calls = <<>>
    /\ threads = [t \in Threads |-> IdleThread]
    /\ loading = NotLoading
    /\ probe = NoProbe

(***************************************************************************)
(* load_model: the assignments of lines 112-122 happen one after another;  *)
(* stage is the number of groups completed before an exception (4 = all,   *)
(* the call returns)                                                       *)
(***************************************************************************)
LoadStages == 0..4

LoadModel(m, stage) ==
    /\ transformer' = IF stage >= 1 THEN m ELSE transformer
    /\ encoded_feature_names' = IF stage >= 2 THEN m ELSE encoded_feature_names
    /\ content_weight' = IF stage >= 2 THEN FileContentWeight(m) ELSE content_weight
    /\ programs_df' = IF stage >= 3 THEN m ELSE programs_df
    /\ program_features_df' = IF stage >= 4 THEN m ELSE program_features_df
    /\ model_loaded' = IF stage >= 4 THEN TRUE ELSE model_loaded
    /\ UNCHANGED <<cacheVars, feedbackVars, now, last, stored, adjusted,
                   storeVars, threads, loading, probe>>

\* the clock advances between calls; the code compares it only with the
\* insertion times of cache entries, so it runs from the first store on
Tick ==
    /\ now < MaxTime
    /\ cache # <<>>
    /\ now' = now + 1
    /\ UNCHANGED <<modelVars, cacheVars, feedbackVars, last, stored, adjusted,
                   storeVars, threads, loading, probe>>


(***************************************************************************)
(* Python dict operations on the cache (an insertion-ordered list of       *)
(* [key, value]) and on the timestamp map (a function)                     *)
(***************************************************************************)
DictKeys(d) == {d[i].key : i \in 1..Len(d)}

\* the value of the first entry, whatever the key
DictValueFirst(d, k) == d[1].value

DictValue(d, k) == d[CHOOSE i \in 1..Len(d) : d[i].key = k].value

\* del that leaves the dictionary as it is
DictKeep(d, k) == d

DictDel(d, k) == SelectSeq(d, LAMBDA e : e.key # k)

\* d[k] = v: an existing key keeps its position, a new key goes last
DictSet(d, k, v) ==
    IF k \in DictKeys(d)
    THEN [i \in 1..Len(d) |-> IF d[i].key = k THEN [key |-> k, value |-> v] ELSE d[i]]
    ELSE Append(d, [key |-> k, value |-> v])

FnDel(f, k) == [x \in (DOMAIN f) \ {k} |-> f[x]]

FnSet(f, k, v) == [x \in (DOMAIN f) \cup {k} |-> IF x = k THEN v ELSE f[x]]

\* an entry still valid when its age equals the TTL
CacheEntryValidInclusive(cache_time, t) ==
    cache_time # NoneNum /\ t - cache_time <= CacheTtl

\* line 352: cache_time and datetime.now() - cache_time < self._cache_ttl
CacheEntryValid(cache_time, t) ==
    cache_time # NoneNum /\ t - cache_time < CacheTtl

\* the cached frame returned whole
CachedResultWhole(value, n) == value

\* line 356: self._cache[cache_key].head(num_recommendations).copy()
CachedResult(value, n) == Head_n(value, n)

\* line 470: len(self._cache) > 1000
CacheFull(d) == Len(d) > CacheMax

\* the key inserted last
NewestKey(d) == d[Len(d)].key

\* line 471: next(iter(self._cache))
OldestKey(d) == d[1].key

\* the miss counted whether or not the cache is used
CountMissAlways(use_cache, misses) == misses + 1

\* lines 347 and 362: self._cache_misses += 1 inside "if use_cache"
CountMiss(use_cache, misses) == IF use_cache THEN misses + 1 ELSE misses

\* readiness judged by the transformer being set
ModelReadyByTransformer == transformer # 0

\* line 343: self.model_loaded
ModelReady == model_loaded

(***************************************************************************)
(* recommend(user_profile, num_recommendations, content_weight, ...,       *)
(*           use_cache, diversify, apply_feedback)                         *)
(***************************************************************************)
Recommend(profile, n, cw_arg, use_cache, diversify, apply_feedback) ==
    LET call == [op |-> "recommend", profile |-> profile, n |-> n,
                 content_weight |-> cw_arg, use_cache |-> use_cache,
                 diversify |-> diversify, apply_feedback |-> apply_feedback,
                 at |-> now, outcome |-> "none", result |-> <<>>]
        cache_key == get_cache_key(profile)
        in_cache == use_cache /\ cache_key \in DictKeys(cache)
        cache_time == DictGet(cache_timestamps, cache_key, NoneNum)
    IN
    /\ UNCHANGED <<adjusted, storeVars, threads, loading>>
    /\ IF ~ModelReady
       THEN \* line 344: raise RuntimeError("Model not loaded...")
            /\ last' = [call EXCEPT !.outcome = "RuntimeError"]
            /\ UNCHANGED <<modelVars, cacheVars, feedbackVars, now, stored>>
       ELSE IF in_cache /\ CacheEntryValid(cache_time, now)
       THEN \* lines 353-356: cache hit
            /\ cache_hits' = cache_hits + 1
            /\ last' = [call EXCEPT !.outcome = "hit",
                                    !.result = CachedResult(DictValue(cache, cache_key), n)]
            /\ UNCHANGED <<modelVars, cache, cache_timestamps, cache_misses,
                           feedbackVars, now, stored>>
       ELSE IF in_cache /\ cache_key \notin DOMAIN cache_timestamps
       THEN \* lines 360-361: the second del raises KeyError
            /\ cache' = DictDel(cache, cache_key)
            /\ last' = [call EXCEPT !.outcome = "KeyError"]
            /\ UNCHANGED <<modelVars, cache_timestamps, cache_hits, cache_misses,
                           feedbackVars, now, stored>>
       ELSE \* lines 357-477: expired entry removed, miss counted, result
            \* computed and stored (the call takes no model time: both clock
            \* reads return now)
            \E result \in ComputedResults(transformer, program_features_df,
                                           programs_df, content_weight,
                                           feedback_data, profile, n, cw_arg,
                                           diversify, apply_feedback) :
               LET cache1 == IF in_cache THEN DictDel(cache, cache_key) ELSE cache
                   ts1 == IF in_cache THEN FnDel(cache_timestamps, cache_key)
                          ELSE cache_timestamps
                   st1 == IF in_cache THEN FnDel(stored, cache_key) ELSE stored
                   cache2 == DictSet(cache1, cache_key, result)
                   ts2 == FnSet(ts1, cache_key, now)
                   st2 == FnSet(st1, cache_key,
                                [n |-> n, result |-> result, at |-> now])
                   oldest_key == OldestKey(cache2)
               IN  /\ last' = [call EXCEPT !.outcome = IF in_cache THEN "expired"
                                                       ELSE IF use_cache THEN "miss"
                                                       ELSE "computed",
                                           !.result = result]
                   /\ cache_misses' = CountMiss(use_cache, cache_misses)
                   /\ IF ~use_cache
                      THEN UNCHANGED <<cache, cache_timestamps, stored>>
                      ELSE IF CacheFull(cache2)
                      THEN /\ cache' = DictDel(cache2, oldest_key)
                           /\ cache_timestamps' = FnDel(ts2, oldest_key)
                           /\ stored' = FnDel(st2, oldest_key)
                      ELSE /\ cache' = cache2
                           /\ cache_timestamps' = ts2
                           /\ stored' = st2
                   /\ UNCHANGED <<modelVars, cache_hits, feedbackVars, now>>

(***************************************************************************)
(* record_feedback(user_id, program_id, feedback_type) with save_feedback: *)
(* copy_ok says whether the best-effort backup copy succeeds, write_ok     *)
(* whether the temporary file is written and renamed (otherwise the call   *)
(* raises after the entry was appended in memory)                          *)
(***************************************************************************)
LogSize(fd) ==
    LET RECURSIVE Sum(_)
        Sum(S) == IF S = {} THEN 0
                  ELSE LET u == CHOOSE x \in S : TRUE
                       IN  Len(fd[u]) + Sum(S \ {u})
    IN  Sum(DOMAIN fd)

\* the new entry takes the place of the user's list
record_feedback_latest(fd, user_id, program_id, feedback_type) ==
    FnSet(fd, user_id, <<[program_id |-> program_id, feedback_type |-> feedback_type]>>)

record_feedback(fd, user_id, program_id, feedback_type) ==
    LET fd1 == IF user_id \notin DOMAIN fd THEN FnSet(fd, user_id, <<>>) ELSE fd
    IN  [fd1 EXCEPT ![user_id] =
            Append(@, [program_id |-> program_id, feedback_type |-> feedback_type])]

RecordFeedback(user_id, program_id, feedback_type, copy_ok, write_ok) ==
    /\ feedback_data' = record_feedback(feedback_data, user_id, program_id, feedback_type)
    /\ backup_file' = IF store_file.exists /\ copy_ok THEN store_file ELSE backup_file
    /\ store_file' = IF write_ok THEN FileWith(feedback_data') ELSE store_file
    /\ calls' = CallsOf(feedback_data')
    /\ UNCHANGED <<modelVars, cacheVars, now, last, stored, adjusted,
                   save_pc, tmp_file, fb_outcome, threads, loading, probe>>

(***************************************************************************)
(* The recommender behind the API (src/src/api/app.py): the endpoints pass *)
(* the profile, num_recommendations and content_weight and leave           *)
(* use_cache, diversify and apply_feedback at their defaults (True); the   *)
(* feedback endpoint records feedback; the disk is reliable; time passes.  *)
(***************************************************************************)
ApiLoad == \E m \in ModelFiles, stage \in LoadStages : LoadModel(m, stage)

ApiRecommend ==
    \E profile \in Profiles, n \in 1..MaxN, cw_arg \in ContentWeightArgs :
       /\ cache_hits + cache_misses < MaxRequests
       /\ Recommend(profile, n, cw_arg, TRUE, TRUE, TRUE)
       /\ UNCHANGED probe

ApiFeedback ==
    \E u \in Users, p \in RecordedPrograms, t \in RecordedTypes :
       /\ LogSize(feedback_data) < MaxLog
       /\ RecordFeedback(u, p, t, TRUE, TRUE)

Next ==
    \/ ApiLoad
    \/ ApiRecommend
    \/ ApiFeedback
    \/ Tick

Spec == Init /\ [][Next]_vars

(***************************************************************************)
(* The recommender called as a library with the cache switched off         *)
(* (test_all_improvements.py): every combination of diversify and          *)
(* apply_feedback                                                          *)
(***************************************************************************)
LibLoad == \E m \in ModelFiles : LoadModel(m, 4)

LibRecommend ==
    \E profile \in Profiles, n \in 1..MaxN, cw_arg \in ContentWeightArgs,
       diversify \in BOOLEAN, apply_feedback \in BOOLEAN :
       /\ Recommend(profile, n, cw_arg, FALSE, diversify, apply_feedback)
       /\ UNCHANGED probe

LibFeedback ==
    \E u \in Users, p \in RecordedPrograms, t \in LibraryTypes :
       /\ LogSize(feedback_data) < MaxLog
       /\ RecordFeedback(u, p, t, TRUE, TRUE)

NextLibrary ==
    \/ LibLoad
    \/ LibRecommend
    \/ LibFeedback

SpecLibrary == Init /\ [][NextLibrary]_vars

(***************************************************************************)
(* The feedback system on its own: records of every feedback type for two  *)
(* programs, and adjust_recommendation_score called with any base score    *)
(* for a user with history ("u1") and a user without ("u2")                *)
(***************************************************************************)
AdjustUsers == {"u1", "u2"}

AdjustPrograms == {"P1", "P2"}

\* base scores in score units: negative, zero and positive
BaseScores == {-20, 0, 10, 20}

AdjustScore(user_id, program_id, base_score) ==
    /\ adjusted' = [user_id |-> user_id, program_id |-> program_id,
                    base_score |-> base_score,
                    result |-> adjust_recommendation_score(
                                  feedback_data, user_id, program_id, base_score)]
    /\ UNCHANGED <<modelVars, cacheVars, feedbackVars, now, last, stored,
                   storeVars, threads, loading, probe>>

FbRecord ==
    \E u \in Users, p \in AdjustPrograms, t \in FeedbackTypes :
       /\ LogSize(feedback_data) < MaxHistory
       /\ RecordFeedback(u, p, t, TRUE, TRUE)

FbAdjust ==
    \E u \in AdjustUsers, p \in AdjustPrograms, b \in BaseScores :
       AdjustScore(u, p, b)

NextFeedback ==
    \/ FbRecord
    \/ FbAdjust

SpecFeedback == Init /\ [][NextFeedback]_vars


(***************************************************************************)
(* The feedback store on disk (user_feedback.py, save_feedback and         *)
(* load_feedback).  A record_feedback call appends in memory and then      *)
(* saves in steps, each of which a failing file operation can end; a new   *)
(* UserFeedbackSystem (a restart of the process) loads the store; the      *)
(* primary file can be damaged between calls (an interrupted disk, an      *)
(* editor, another program).                                               *)
(***************************************************************************)
StoreUsers == {"u1", "u2"}

StorePrograms == {"P1"}

StoreTypes == {"liked", "viewed"}

\* outcomes of shutil.copy2: done, destination left incomplete, nothing written
CopyOutcomes == {"ok", "partial", "fail"}

\* shutil.copy2(src, dst): the destination file afterwards
copy2(src, dst, outcome) ==
    CASE outcome = "ok" -> src
      [] outcome = "partial" -> Partial(src.data)
      [] OTHER -> dst

\* a rename done as a rewrite of the target in place
os_replace_inplace(tmp, target, ok) == IF ok THEN tmp ELSE Partial(tmp.data)

\* line 185: os.replace(tmp_path, self.storage_path): the target afterwards
os_replace(tmp, target, ok) == IF ok THEN tmp ELSE target

\* json.load succeeds on the file
Readable(file) == file.exists /\ file.whole

\* lines 62-73 of record_feedback, then save_feedback is entered
StoreRecord(user_id, program_id, feedback_type) ==
    /\ save_pc = "idle"
    /\ fb_outcome.seq < MaxStoreCalls
    /\ feedback_data' = record_feedback(feedback_data, user_id, program_id, feedback_type)
    /\ calls' = [u \in DOMAIN feedback_data' |->
                    DictGet(calls, u, 0) + IF u = user_id THEN 1 ELSE 0]
    /\ save_pc' = "backup"
    /\ fb_outcome' = [op |-> "record_feedback", seq |-> fb_outcome.seq + 1,
                      outcome |-> "running"]
    /\ UNCHANGED <<modelVars, cacheVars, store_file, backup_file, tmp_file,
                   now, last, stored, adjusted, threads, loading, probe>>

\* lines 169-174: the best-effort backup copy
SaveBackup(outcome) ==
    /\ save_pc = "backup"
    /\ backup_file' = IF store_file.exists
                      THEN copy2(store_file, backup_file, outcome)
                      ELSE backup_file
    /\ save_pc' = "mkstemp"
    /\ UNCHANGED <<modelVars, cacheVars, feedback_data, store_file, tmp_file,
                   fb_outcome, calls, now, last, stored, adjusted, threads,
                   loading, probe>>

\* line 178: tempfile.mkstemp, outside the try block
SaveMkstemp(ok) ==
    /\ save_pc = "mkstemp"
    /\ tmp_file' = IF ok THEN Partial(<<>>) ELSE tmp_file
    /\ save_pc' = IF ok THEN "write" ELSE "idle"
    /\ fb_outcome' = IF ok THEN fb_outcome ELSE [fb_outcome EXCEPT !.outcome = "raised"]
    /\ UNCHANGED <<modelVars, cacheVars, feedbackVars, calls, now, last, stored,
                   adjusted, threads, loading, probe>>

\* lines 181-182: json.dump into the temporary file
SaveWrite(ok) ==
    /\ save_pc = "write"
    /\ tmp_file' = IF ok THEN FileWith(feedback_data) ELSE Partial(feedback_data)
    /\ save_pc' = IF ok THEN "replace" ELSE "cleanup"
    /\ UNCHANGED <<modelVars, cacheVars, feedbackVars, fb_outcome, calls, now,
                   last, stored, adjusted, threads, loading, probe>>

\* line 185: os.replace
SaveReplace(ok) ==
    /\ save_pc = "replace"
    /\ store_file' = os_replace(tmp_file, store_file, ok)
    /\ tmp_file' = IF ok THEN Absent ELSE tmp_file
    /\ save_pc' = IF ok THEN "idle" ELSE "cleanup"
    /\ fb_outcome' = IF ok THEN [fb_outcome EXCEPT !.outcome = "returned"]
                     ELSE fb_outcome
    /\ UNCHANGED <<modelVars, cacheVars, feedback_data, backup_file, calls, now,
                   last, stored, adjusted, threads, loading, probe>>

\* lines 186-192: os.unlink (an OSError of which is ignored), then raise
SaveCleanup(unlink_ok) ==
    /\ save_pc = "cleanup"
    /\ tmp_file' = IF unlink_ok THEN Absent ELSE tmp_file
    /\ save_pc' = "idle"
    /\ fb_outcome' = [fb_outcome EXCEPT !.outcome = "raised"]
    /\ UNCHANGED <<modelVars, cacheVars, feedbackVars, calls, now, last, stored,
                   adjusted, threads, loading, probe>>

\* the log that load_feedback leaves in memory (lines 196-214)
LoadedLog(primary, backup, restore) ==
    IF ~primary.exists THEN <<>>
    ELSE IF Readable(primary) THEN primary.data
    ELSE IF Readable(backup) /\ restore = "ok" THEN backup.data
    ELSE <<>>

\* load_feedback raises RuntimeError (line 215)
LoadRaises(primary, backup, restore) ==
    /\ primary.exists
    /\ ~Readable(primary)
    /\ ~(Readable(backup) /\ restore = "ok")

\* UserFeedbackSystem.__init__ (lines 38-42) with load_feedback; restore is
\* the outcome of the copy of the backup over the primary file (line 209)
StoreLoad(restore) ==
    /\ save_pc = "idle"
    /\ fb_outcome.seq < MaxStoreCalls
    /\ feedback_data' = LoadedLog(store_file, backup_file, restore)
    /\ store_file' = IF store_file.exists /\ ~Readable(store_file)
                        /\ Readable(backup_file)
                     THEN copy2(backup_file, store_file, restore)
                     ELSE store_file
    /\ calls' = CallsOf(feedback_data')
    /\ fb_outcome' = [op |-> "load_feedback", seq |-> fb_outcome.seq + 1,
                      outcome |-> IF LoadRaises(store_file, backup_file, restore)
                                  THEN "raised" ELSE "returned"]
    /\ UNCHANGED <<modelVars, cacheVars, backup_file, save_pc, tmp_file, now,
                   last, stored, adjusted, threads, loading, probe>>

\* the primary file is damaged from outside between two calls
Damage ==
    /\ save_pc = "idle"
    /\ Readable(store_file)
    /\ store_file' = Partial(store_file.data)
    /\ UNCHANGED <<modelVars, cacheVars, feedback_data, backup_file, storeVars,
                   now, last, stored, adjusted, threads, loading, probe>>

StoreRecordCall ==
    \E u \in StoreUsers, p \in StorePrograms, t \in StoreTypes : StoreRecord(u, p, t)

StoreSaveStep ==
    \/ \E outcome \in CopyOutcomes : SaveBackup(outcome)
    \/ \E ok \in BOOLEAN : SaveMkstemp(ok)
    \/ \E ok \in BOOLEAN : SaveWrite(ok)
    \/ \E ok \in BOOLEAN : SaveReplace(ok)
    \/ \E unlink_ok \in BOOLEAN : SaveCleanup(unlink_ok)

StoreLoadCall == \E restore \in CopyOutcomes : StoreLoad(restore)

NextStore ==
    \/ StoreRecordCall
    \/ StoreSaveStep
    \/ StoreLoadCall
    \/ Damage

SpecStore == Init /\ [][NextStore]_vars


(***************************************************************************)
(* Two recommend calls with use_cache=True running as threads of one       *)
(* process on one FitnessRecommender (the class takes no lock): each read, *)
(* write and delete of self._cache and of self._cache_timestamps           *)
(* (recommender.py lines 349-362 and 467-474) is one step of its thread.   *)
(***************************************************************************)
threadFrame == <<modelVars, feedbackVars, storeVars, now, last, stored,
                 adjusted, loading, probe>>

\* recommend calls started so far by all threads
StartedCalls ==
    LET RECURSIVE Sum(_)
        Sum(S) == IF S = {} THEN 0
                  ELSE LET t == CHOOSE x \in S : TRUE
                       IN  threads[t].started + Sum(S \ {t})
    IN  Sum(Threads)

ThreadKey(t) == get_cache_key(threads[t].profile)

\* the thread moves to position pc
Goto(t, pc) == threads' = [threads EXCEPT ![t].pc = pc]

\* the call of the thread ends with the given outcome
Finish(t, outcome) ==
    threads' = [threads EXCEPT ![t].pc = "idle", ![t].outcome = outcome,
                               ![t].result = <<>>, ![t].oldest_key = None]

\* line 343 passed: the call is entered with a loaded model
ThreadCall(t, profile) ==
    /\ threads[t].pc = "idle"
    /\ ModelReady
    /\ StartedCalls < MaxThreadCalls
    /\ threads' = [threads EXCEPT ![t].pc = "lookup", ![t].profile = profile,
                                  ![t].outcome = "running",
                                  ![t].started = @ + 1]
    /\ UNCHANGED <<threadFrame, cacheVars>>

\* line 349: cache_key in self._cache
ThreadLookup(t) ==
    /\ threads[t].pc = "lookup"
    /\ Goto(t, IF ThreadKey(t) \in DictKeys(cache) THEN "gettime" ELSE "miss")
    /\ UNCHANGED <<threadFrame, cacheVars>>

\* lines 351-352: the timestamp is read and compared with the clock
ThreadGetTime(t) ==
    /\ threads[t].pc = "gettime"
    /\ Goto(t, IF CacheEntryValid(DictGet(cache_timestamps, ThreadKey(t), NoneNum), now)
               THEN "hit" ELSE "del_cache")
    /\ UNCHANGED <<threadFrame, cacheVars>>

\* lines 353-356: the hit is counted and self._cache[cache_key] is read
ThreadHit(t) ==
    /\ threads[t].pc = "hit"
    /\ cache_hits' = cache_hits + 1
    /\ Finish(t, IF ThreadKey(t) \in DictKeys(cache) THEN "hit" ELSE "KeyError")
    /\ UNCHANGED <<threadFrame, cache, cache_timestamps, cache_misses>>

\* line 360: del self._cache[cache_key]
ThreadDelCache(t) ==
    /\ threads[t].pc = "del_cache"
    /\ IF ThreadKey(t) \in DictKeys(cache)
       THEN /\ cache' = DictDel(cache, ThreadKey(t))
            /\ Goto(t, "del_ts")
       ELSE /\ Finish(t, "KeyError")
            /\ UNCHANGED cache
    /\ UNCHANGED <<threadFrame, cache_timestamps, cache_hits, cache_misses>>

\* line 361: del self._cache_timestamps[cache_key]
ThreadDelTs(t) ==
    /\ threads[t].pc = "del_ts"
    /\ IF ThreadKey(t) \in DOMAIN cache_timestamps
       THEN /\ cache_timestamps' = FnDel(cache_timestamps, ThreadKey(t))
            /\ Goto(t, "miss")
       ELSE /\ Finish(t, "KeyError")
            /\ UNCHANGED cache_timestamps
    /\ UNCHANGED <<threadFrame, cache, cache_hits, cache_misses>>

\* lines 362-462: the miss is counted and the result computed
ThreadMiss(t) ==
    /\ threads[t].pc = "miss"
    /\ cache_misses' = cache_misses + 1
    /\ \E result \in ComputedResults(transformer, program_features_df,
                                      programs_df, content_weight, feedback_data,
                                      threads[t].profile, 1, NoneNum, TRUE, TRUE) :
          threads' = [threads EXCEPT ![t].pc = "store", ![t].result = result]
    /\ UNCHANGED <<threadFrame, cache, cache_timestamps, cache_hits>>

\* line 467: self._cache[cache_key] = result.copy()
ThreadStore(t) ==
    /\ threads[t].pc = "store"
    /\ cache' = DictSet(cache, ThreadKey(t), threads[t].result)
    /\ Goto(t, "stamp")
    /\ UNCHANGED <<threadFrame, cache_timestamps, cache_hits, cache_misses>>

\* line 468: self._cache_timestamps[cache_key] = datetime.now()
ThreadStamp(t) ==
    /\ threads[t].pc = "stamp"
    /\ cache_timestamps' = FnSet(cache_timestamps, ThreadKey(t), now)
    /\ Goto(t, "checklen")
    /\ UNCHANGED <<threadFrame, cache, cache_hits, cache_misses>>

\* lines 470-471: the size test and oldest_key = next(iter(self._cache))
ThreadCheckLen(t) ==
    /\ threads[t].pc = "checklen"
    /\ IF CacheFull(cache)
       THEN threads' = [threads EXCEPT ![t].pc = "evict",
                                       ![t].oldest_key = OldestKey(cache)]
       ELSE Finish(t, "miss")
    /\ UNCHANGED <<threadFrame, cacheVars>>

\* line 472: del self._cache[oldest_key]
ThreadEvict(t) ==
    /\ threads[t].pc = "evict"
    /\ IF threads[t].oldest_key \in DictKeys(cache)
       THEN /\ cache' = DictDel(cache, threads[t].oldest_key)
            /\ Goto(t, "evict_check")
       ELSE /\ Finish(t, "KeyError")
            /\ UNCHANGED cache
    /\ UNCHANGED <<threadFrame, cache_timestamps, cache_hits, cache_misses>>

\* line 473: oldest_key in self._cache_timestamps
ThreadEvictCheck(t) ==
    /\ threads[t].pc = "evict_check"
    /\ IF threads[t].oldest_key \in DOMAIN cache_timestamps
       THEN Goto(t, "evict_ts")
       ELSE Finish(t, "miss")
    /\ UNCHANGED <<threadFrame, cacheVars>>

\* line 474: del self._cache_timestamps[oldest_key]
ThreadEvictTs(t) ==
    /\ threads[t].pc = "evict_ts"
    /\ IF threads[t].oldest_key \in DOMAIN cache_timestamps
       THEN /\ cache_timestamps' = FnDel(cache_timestamps, threads[t].oldest_key)
            /\ Finish(t, "miss")
       ELSE /\ Finish(t, "KeyError")
            /\ UNCHANGED cache_timestamps
    /\ UNCHANGED <<threadFrame, cache, cache_hits, cache_misses>>

\* the clock of the process
ThreadTick ==
    /\ now < MaxTime
    /\ cache # <<>>
    /\ now' = now + 1
    /\ UNCHANGED <<modelVars, cacheVars, feedbackVars, last, stored, adjusted,
                   storeVars, threads, loading, probe>>

ThreadsLoad ==
    /\ ~model_loaded
    /\ \E m \in ModelFiles : LoadModel(m, 4)

ThreadsCall == \E t \in Threads, profile \in Profiles : ThreadCall(t, profile)

ThreadsLookupStep ==
    \E t \in Threads :
       \/ ThreadLookup(t)
       \/ ThreadGetTime(t)
       \/ ThreadHit(t)
       \/ ThreadDelCache(t)
       \/ ThreadDelTs(t)

ThreadsStoreStep ==
    \E t \in Threads :
       \/ ThreadMiss(t)
       \/ ThreadStore(t)
       \/ ThreadStamp(t)
       \/ ThreadCheckLen(t)
       \/ ThreadEvict(t)
       \/ ThreadEvictCheck(t)
       \/ ThreadEvictTs(t)

NextThreads ==
    \/ ThreadsLoad
    \/ ThreadsCall
    \/ ThreadsLookupStep
    \/ ThreadsStoreStep
    \/ ThreadTick

SpecThreads == Init /\ [][NextThreads]_vars


(***************************************************************************)
(* load_model called repeatedly on one recommender (the API start-up and   *)
(* the fixtures of the tests both load the module-level recommender), each *)
(* call reading the files then on disk: m numbers the calls.  The          *)
(* assignments of lines 112-122 are separate steps, an exception (lines    *)
(* 125-127) can end the call before any of them, and recommend can run     *)
(* between two steps.                                                      *)
(***************************************************************************)
loadFrame == <<cacheVars, feedbackVars, storeVars, now, stored, adjusted,
               threads, probe>>

\* load_model is entered
LoadBegin ==
    /\ ~loading.active
    /\ loading.m < MaxLoads
    /\ loading' = [m |-> loading.m + 1, stage |-> 0, active |-> TRUE]
    /\ UNCHANGED <<modelVars, loadFrame, last>>

\* the next group of assignments of lines 112-122
LoadAssign ==
    LET m == loading.m
        k == loading.stage + 1
    IN  /\ loading.active
        /\ transformer' = IF k = 1 THEN m ELSE transformer
        /\ encoded_feature_names' = IF k = 2 THEN m ELSE encoded_feature_names
        /\ content_weight' = IF k = 2 THEN FileContentWeight(m) ELSE content_weight
        /\ programs_df' = IF k = 3 THEN m ELSE programs_df
        /\ program_features_df' = IF k = 4 THEN m ELSE program_features_df
        /\ model_loaded' = IF k = 4 THEN TRUE ELSE model_loaded
        /\ loading' = [loading EXCEPT !.stage = k, !.active = (k < 4)]
        /\ UNCHANGED <<loadFrame, last>>

\* lines 125-127: a read fails, the exception is logged and raised again
LoadFail ==
    /\ loading.active
    /\ loading' = [loading EXCEPT !.active = FALSE]
    /\ UNCHANGED <<modelVars, loadFrame, last>>

\* a recommend call at any moment, also while load_model is running
LoadRecommend ==
    \E profile \in Profiles :
       /\ Recommend(profile, 1, NoneNum, FALSE, FALSE, FALSE)
       /\ UNCHANGED probe

NextLoad ==
    \/ LoadBegin
    \/ LoadAssign
    \/ LoadFail
    \/ LoadRecommend

SpecLoad == Init /\ [][NextLoad]_vars


(***************************************************************************)
(* A recommendation request (POST /recommend/simple, app.py lines 289-316) *)
(* from its JSON body to the result: the body is validated into a          *)
(* UserProfile (schemas.py lines 18-106), a body that fails validation is  *)
(* answered with a ValidationError (status 422) before the handler runs,   *)
(* and the handler passes a valid profile to recommend, which encodes it   *)
(* with the fitted transformer (OneHotEncoder with handle_unknown='ignore',*)
(* preprocessing.py lines 187-193).                                        *)
(***************************************************************************)
VALID_FITNESS_LEVELS == {"Beginner", "Novice", "Intermediate", "Advanced"}

VALID_GOALS ==
    {"General Fitness", "Weight Loss", "Strength", "Hypertrophy", "Bodybuilding",
     "Powerlifting", "Athletics", "Endurance", "Muscle & Sculpting",
     "Bodyweight Fitness", "Athletic Performance"}

VALID_EQUIPMENT == {"At Home", "Dumbbell Only", "Full Gym", "Garage Gym"}

VALID_DURATIONS == {"30-45 min", "45-60 min", "60-75 min", "75-90 min", "90+ min"}

VALID_TRAINING_STYLES ==
    {"Full Body", "Upper/Lower", "Push/Pull/Legs", "Body Part Split", "No preference"}

validate_fitness_level(v) == v \in VALID_FITNESS_LEVELS

\* any list of goals passes
validate_goals_any(v) == TRUE

\* Field(..., min_length=1) and validate_goals
validate_goals(v) == Len(v) >= 1 /\ \A i \in 1..Len(v) : v[i] \in VALID_GOALS

validate_equipment(v) == v \in VALID_EQUIPMENT

validate_duration(v) == v = None \/ v \in VALID_DURATIONS

\* Field(None, ge=1, le=7)
validate_frequency(v) == v = NoneNum \/ (v >= 1 /\ v <= 7)

validate_style(v) == v = None \/ v \in VALID_TRAINING_STYLES

\* UserProfile(**body) returns a profile (TRUE) or raises ValidationError
UserProfileValid(body) ==
    /\ validate_fitness_level(body.fitness_level)
    /\ validate_goals(body.goals)
    /\ validate_equipment(body.equipment)
    /\ validate_duration(body.preferred_duration)
    /\ validate_frequency(body.preferred_frequency)
    /\ validate_style(body.preferred_style)

\* a request body around a profile of the model: the optional fields absent
BodyOf(profile) ==
    [fitness_level |-> "Intermediate", goals |-> profile.goals,
     equipment |-> profile.equipment, preferred_duration |-> None,
     preferred_frequency |-> NoneNum, preferred_style |-> None,
     user_id |-> profile.user_id]

\* the bodies sent: the profiles of the model, and each of them with one
\* field replaced by a value outside its allowed values
RequestBodies ==
    LET good == {BodyOf(p) : p \in Profiles}
    IN  good
        \cup {[b EXCEPT !.fitness_level = "Expert"] : b \in good}
        \cup {[b EXCEPT !.goals = g] : b \in good, g \in {<<>>, <<"Become Superman">>}}
        \cup {[b EXCEPT !.equipment = "Spaceship Gym"] : b \in good}
        \cup {[b EXCEPT !.preferred_duration = "2 hours"] : b \in good}
        \cup {[b EXCEPT !.preferred_frequency = f] : b \in good, f \in {0, 8}}
        \cup {[b EXCEPT !.preferred_style = "Zumba"] : b \in good}

\* the fields of user_profile.model_dump() that vary in the model
PipelineProfile(body) ==
    [user_id |-> body.user_id, goals |-> body.goals, equipment |-> body.equipment]

\* the categories of a feature the fitted OneHotEncoder knows: the values
\* of the column in the program table the transformer was fitted on
FittedCategories(tf, column) ==
    {ProgramsCsv(tf)[i][column] : i \in 1..Len(ProgramsCsv(tf))}

\* OneHotEncoder(handle_unknown='ignore').transform: the indicator of the
\* value over the fitted categories, all zero for a value not among them
one_hot(categories, v) == [c \in categories |-> IF c = v THEN 1 ELSE 0]

\* the categorical part of _encode_user_features (lines 249-259)
EncodedCategories(tf, body) ==
    [equipment |-> one_hot(FittedCategories(tf, "equipment"), body.equipment),
     primary_goal |-> one_hot(FittedCategories(tf, "primary_goal"),
                              IF Len(body.goals) > 0 THEN body.goals[1]
                              ELSE "General Fitness")]

RequestRecommend(body, n) ==
    IF ~UserProfileValid(body)
    THEN /\ probe' = [op |-> "request", body |-> body, outcome |-> "ValidationError"]
         /\ UNCHANGED <<modelVars, cacheVars, feedbackVars, now, last, stored,
                        adjusted, storeVars, threads, loading>>
    ELSE /\ probe' = [op |-> "request", body |-> body, outcome |-> "accepted",
                      encoded |-> EncodedCategories(transformer, body)]
         /\ Recommend(PipelineProfile(body), n, NoneNum, TRUE, TRUE, TRUE)

RequestLoad ==
    /\ ~model_loaded
    /\ \E m \in ModelFiles : LoadModel(m, 4)

RequestCall ==
    \E body \in RequestBodies, n \in 1..MaxN :
       /\ model_loaded
       /\ cache_hits + cache_misses < MaxRequests
       /\ RequestRecommend(body, n)

NextRequest ==
    \/ RequestLoad
    \/ RequestCall

SpecRequest == Init /\ [][NextRequest]_vars


(***************************************************************************)
(* The functions of the input layer called on their own:                   *)
(* process_user_features (preprocessing.py lines 128-175) on profile       *)
(* dictionaries, which need not have passed validation, and                *)
(* content_based_recommendations (recommender.py lines 274-312) on the     *)
(* loaded feature table.                                                   *)
(***************************************************************************)
DURATION_MAP ==
    [d \in VALID_DURATIONS |->
       CASE d = "30-45 min" -> 40
         [] d = "45-60 min" -> 55
         [] d = "60-75 min" -> 70
         [] d = "75-90 min" -> 85
         [] d = "90+ min" -> 100]

LEVEL_TO_LENGTH ==
    [l \in VALID_FITNESS_LEVELS |->
       CASE l = "Beginner" -> 4 [] l = "Novice" -> 8
         [] l = "Intermediate" -> 12 [] l = "Advanced" -> 16]

LEVEL_TO_INTENSITY ==
    [l \in VALID_FITNESS_LEVELS |->
       CASE l = "Beginner" -> 0 [] l = "Novice" -> 1
         [] l = "Intermediate" -> 2 [] l = "Advanced" -> 3]

TRAINING_STYLE_MAP ==
    [s \in VALID_TRAINING_STYLES |-> IF s = "No preference" THEN "Other" ELSE s]

\* the sum without the cap at 10
calculate_intensity_score_uncapped(workout_frequency, time_per_workout, primary_level) ==
    LET frequency == IF workout_frequency = NoneNum THEN 4 ELSE workout_frequency
        minutes == IF time_per_workout = NoneNum THEN 60 ELSE time_per_workout
        by_duration == IF minutes < 45 THEN 0
                       ELSE IF minutes < 60 THEN 1
                       ELSE IF minutes < 90 THEN 2
                       ELSE 3
    IN  frequency + by_duration + DictGet(LEVEL_TO_INTENSITY, primary_level, 1)

\* calculate_intensity_score (lines 47-83); None becomes 4 and 60
calculate_intensity_score(workout_frequency, time_per_workout, primary_level) ==
    LET frequency == IF workout_frequency = NoneNum THEN 4 ELSE workout_frequency
        minutes == IF time_per_workout = NoneNum THEN 60 ELSE time_per_workout
        by_duration == IF minutes < 45 THEN 0
                       ELSE IF minutes < 60 THEN 1
                       ELSE IF minutes < 90 THEN 2
                       ELSE 3
    IN  Min2(10, frequency + by_duration
                   + DictGet(LEVEL_TO_INTENSITY, primary_level, 1))

\* the fields process_user_features adds to the profile dictionary; "x or d"
\* takes d when x is None, 0 or the empty string
process_user_features(user_profile) ==
    LET primary_level == user_profile.fitness_level
        duration == IF user_profile.preferred_duration \in {None, ""}
                    THEN "45-60 min" ELSE user_profile.preferred_duration
        time_per_workout == DictGet(DURATION_MAP, duration, 60)
        workout_frequency == IF user_profile.preferred_frequency \in {NoneNum, 0}
                             THEN 4 ELSE user_profile.preferred_frequency
        style == IF user_profile.preferred_style \in {None, ""}
                 THEN "No preference" ELSE user_profile.preferred_style
    IN  [primary_goal |-> IF Len(user_profile.goals) > 0 THEN user_profile.goals[1]
                          ELSE "General Fitness",
         primary_level |-> primary_level,
         time_per_workout |-> time_per_workout,
         workout_frequency |-> workout_frequency,
         training_style |-> DictGet(TRAINING_STYLE_MAP, style, "Other"),
         program_length |-> DictGet(LEVEL_TO_LENGTH, primary_level, 8),
         intensity_score |-> calculate_intensity_score(workout_frequency,
                                                       time_per_workout, primary_level)]

\* the profile dictionaries process_user_features is called on
ProfileDicts ==
    [fitness_level : VALID_FITNESS_LEVELS,
     goals : {<<"Endurance", "Strength">>},
     preferred_duration : {None, "2 hours"} \cup VALID_DURATIONS,
     preferred_frequency : {NoneNum, 0, 1, 4, 7},
     preferred_style : {None, "Zumba"} \cup VALID_TRAINING_STYLES]

ProbeProcess ==
    \E user_profile \in ProfileDicts :
       /\ probe' = [op |-> "process_user_features", user_profile |-> user_profile,
                    result |-> process_user_features(user_profile)]
       /\ UNCHANGED <<modelVars, cacheVars, feedbackVars, now, last, stored,
                      adjusted, storeVars, threads, loading>>

\* top_n as recommend passes it: num_recommendations times 2 or 3
TopNs == {n * multiplier : n \in 1..MaxN, multiplier \in {2, 3}} \cup {1}

ProbeContentBased ==
    \E m \in ModelFiles, profile \in Profiles, top_n \in TopNs :
       \E result \in content_based_recommendations(m, m, profile, top_n) :
          /\ probe' = [op |-> "content_based_recommendations", m |-> m,
                       profile |-> profile, top_n |-> top_n, result |-> result]
          /\ UNCHANGED <<modelVars, cacheVars, feedbackVars, now, last, stored,
                         adjusted, storeVars, threads, loading>>

\* content_based_recommendations called with a user feature table (its index)
\* and a program feature table (catalog: its index) that may be empty.
\* sklearn's cosine_similarity validates both arrays and raises ValueError
\* for an array with no rows.
ContentBasedCall(user_index, user_id, catalog, top_n) ==
    IF user_id \notin Range(user_index)
    THEN [raised |-> "none", returned |-> 0]
    ELSE IF Len(catalog) = 0
    THEN [raised |-> "ValueError", returned |-> 0]
    ELSE [raised |-> "none", returned |-> Min2(top_n, Len(catalog))]

\* the call on its own and through recommend, which encodes the profile into
\* a one-row table indexed by its user id (lines 376-385) and has no handler
ProbeCatalog ==
    /\ probe = NoProbe
    /\ \E user_index \in {<<>>, <<"u1">>, <<"u2">>}, user_id \in {"u1", "u2"},
       catalog \in {<<>>} \cup {FeaturesIndex(m) : m \in ModelFiles}, top_n \in TopNs :
       /\ probe' = [op |-> "catalog", user_index |-> user_index, user_id |-> user_id,
                    catalog |-> catalog, top_n |-> top_n,
                    direct |-> ContentBasedCall(user_index, user_id, catalog, top_n),
                    recommend |-> ContentBasedCall(<<user_id>>, user_id, catalog, top_n)]
       /\ UNCHANGED <<modelVars, cacheVars, feedbackVars, now, last, stored,
                      adjusted, storeVars, threads, loading>>

\* calculate_intensity_score called on its own: frequencies of a valid
\* profile (1..7) or None, minutes on both sides of every bucket limit or
\* None, the four levels and one that is not in the table
ProbeIntensity ==
    /\ probe = NoProbe
    /\ \E workout_frequency \in {NoneNum} \cup 1..7,
          time_per_workout \in {NoneNum, 30, 44, 45, 55, 59, 60, 70, 89, 90, 100},
          primary_level \in VALID_FITNESS_LEVELS \cup {"Expert"} :
       /\ probe' = [op |-> "intensity", workout_frequency |-> workout_frequency,
                    time_per_workout |-> time_per_workout,
                    primary_level |-> primary_level,
                    score |-> calculate_intensity_score(workout_frequency,
                                                        time_per_workout, primary_level)]
       /\ UNCHANGED <<modelVars, cacheVars, feedbackVars, now, last, stored,
                      adjusted, storeVars, threads, loading>>

NextFunctions ==
    \/ ProbeProcess
    \/ ProbeContentBased
    \/ ProbeCatalog
    \/ ProbeIntensity

SpecFunctions == Init /\ [][NextFunctions]_vars


(***************************************************************************)
(* _diversify_recommendations called on its own, on the tables recommend   *)
(* can pass to it (lines 425-450): at least two distinct programs of the   *)
(* catalog, ranked by match_score, whose match_percentage is 100 for the   *)
(* top row and not larger below it, or 0 in every row when no score is     *)
(* positive.                                                               *)
(***************************************************************************)
Percentages == {100, 90, 84, 0, -20}

DiversifyInputs ==
    UNION {{[i \in 1..k |->
               [program_id |-> ProgramsCsv(m)[p[i]].program_id,
                primary_goal |-> ProgramsCsv(m)[p[i]].primary_goal,
                equipment |-> ProgramsCsv(m)[p[i]].equipment,
                training_style |-> ProgramsCsv(m)[p[i]].training_style,
                match_percentage |-> c[i]]] :
              p \in {q \in [1..k -> 1..Len(ProgramsCsv(m))] :
                       \A i, j \in 1..k : q[i] = q[j] => i = j},
              c \in {d \in [1..k -> Percentages] :
                       /\ \A i \in 1..(k - 1) : d[i] >= d[i + 1]
                       /\ d[1] = 100 \/ \A i \in 1..k : d[i] = 0}} :
           k \in 2..MaxRows, m \in ModelFiles}

ProbeDiversify ==
    /\ probe = NoProbe
    /\ \E recommendations \in DiversifyInputs :
       \E result \in diversify_recommendations(recommendations) :
          /\ probe' = [op |-> "diversify", recommendations |-> recommendations,
                       result |-> result]
          /\ UNCHANGED <<modelVars, cacheVars, feedbackVars, now, last, stored,
                         adjusted, storeVars, threads, loading>>

SpecDiversify == Init /\ [][ProbeDiversify]_vars

(***************************************************************************)
(* ImprovedGoalMatcher.calculate_goal_match_score called on its own, on    *)
(* lists of at most MaxGoals goals: goals of the tables and one goal       *)
(* ("Yoga") that is in neither table.                                      *)
(***************************************************************************)
GoalNames ==
    {"Strength", "Powerlifting", "Endurance", "Weight Loss", "General Fitness", "Yoga"}

GoalLists == UNION {[1..k -> GoalNames] : k \in 0..MaxGoals}

ProbeGoalScore ==
    /\ probe = NoProbe
    /\ \E user_goals \in GoalLists, program_goals \in GoalLists :
       /\ probe' = [op |-> "goal_score", user_goals |-> user_goals,
                    program_goals |-> program_goals,
                    score |-> calculate_goal_match_score(user_goals, program_goals)]
       /\ UNCHANGED <<modelVars, cacheVars, feedbackVars, now, last, stored,
                      adjusted, storeVars, threads, loading>>

SpecGoals == Init /\ [][ProbeGoalScore]_vars

(***************************************************************************)
(* One recommender called with the cache switched on and off and with      *)
(* diversify switched on and off from call to call; no feedback is         *)
(* recorded, so the feedback log never changes.                            *)
(***************************************************************************)
\* the statistics with the hits alone as the total
get_cache_stats_hits ==
    [hits |-> cache_hits, misses |-> cache_misses, total_requests |-> cache_hits,
     hit_rate_percent |-> IF cache_hits > 0 THEN 10000 ELSE 0,
     cache_size |-> Len(cache)]

\* get_cache_stats (lines 499-510); hit_rate_percent in hundredths of a
\* percent, round(hits / total * 100, 2)
get_cache_stats ==
    LET total == cache_hits + cache_misses
    IN  [hits |-> cache_hits, misses |-> cache_misses, total_requests |-> total,
         hit_rate_percent |-> IF total > 0
                              THEN RoundHalfEven(cache_hits * 10000, total) ELSE 0,
         cache_size |-> Len(cache)]

CacheRecommend ==
    \E profile \in {ProfileA, ProfileB}, n \in 1..MaxN, cw_arg \in ContentWeightArgs,
       use_cache \in BOOLEAN, diversify \in BOOLEAN :
       /\ cache_hits + cache_misses < MaxCacheCalls
       /\ Recommend(profile, n, cw_arg, use_cache, diversify, TRUE)
       /\ UNCHANGED probe

NextCache ==
    \/ LibLoad
    \/ CacheRecommend
    \/ Tick

SpecCache == Init /\ [][NextCache]_vars

(***************************************************************************)
(* Properties                                                              *)
(***************************************************************************)
\* a step in which a recommend call returned or raised
RecommendStep ==
    \/ last' # last
    \/ cache_hits' # cache_hits
    \/ cache_misses' # cache_misses

Returned(call) == call.op = "recommend" /\ call.outcome \in {"hit", "miss", "expired", "computed"}

\* C1: a recommend call on a loaded model with n >= 1 returns at most n
\* items, whether the result was computed or served from the cache (also
\* from an entry stored by a call with another n)
C1_AtMostN ==
    Returned(last) => Len(last.result) <= last.n

\* a hit with n = 1 on an entry that a call with n = 2 stored with two rows
C1_Witness ==
    /\ last.outcome = "hit"
    /\ last.n = 1
    /\ Len(last.result) = 1
    /\ get_cache_key(last.profile) \in DOMAIN stored
    /\ stored[get_cache_key(last.profile)].n = 2
    /\ Len(DictValue(cache, get_cache_key(last.profile))) = 2

\* C2: every returned item has an integer match_percentage in 0..100 and a
\* non-empty result starts with match_percentage 100
C2_PercentageRange ==
    Returned(last) =>
        /\ \A i \in 1..Len(last.result) : last.result[i].match_percentage \in 0..100
        /\ Len(last.result) > 0 => last.result[1].match_percentage = 100

\* C3: recommend on a recommender whose model is not loaded raises the
\* "Model not loaded" error, returns nothing, and leaves the cache, the
\* timestamps and the hit and miss counters as they were
C3_NotLoadedRaises ==
    [][(RecommendStep /\ ~model_loaded) =>
          /\ last'.outcome = "RuntimeError"
          /\ last'.result = <<>>
          /\ UNCHANGED cacheVars]_vars

\* a call was rejected after a partial load had set the transformer
C3_Witness ==
    /\ last.outcome = "RuntimeError"
    /\ ~model_loaded
    /\ transformer # 0

\* the fingerprint looked up by the call that a step makes
StepKey == get_cache_key(last'.profile)

\* a step in which a recommend call with use_cache=true ran on a loaded model
CachedCallStep == RecommendStep /\ model_loaded /\ last'.use_cache

Expired(k) ==
    /\ k \in DictKeys(cache)
    /\ k \in DOMAIN cache_timestamps
    /\ now - cache_timestamps[k] >= CacheTtl

\* the entry of key k is gone after the step, or was replaced by a newer one
Removed(k) ==
    \/ k \notin DictKeys(cache')
    \/ k \notin DOMAIN cache_timestamps'
    \/ cache_timestamps'[k] # cache_timestamps[k]

\* a lookup of an expired entry: no hit, one miss, the result recomputed from
\* the current state and stored under the key with the time of the call
ExpiredLookup ==
    (CachedCallStep /\ Expired(StepKey)) =>
        /\ cache_hits' = cache_hits
        /\ cache_misses' = cache_misses + 1
        /\ last'.result \in ComputedResults(transformer, program_features_df,
                                            programs_df, content_weight,
                                            feedback_data, last'.profile, last'.n,
                                            last'.content_weight, last'.diversify,
                                            last'.apply_feedback)
        /\ StepKey \in DictKeys(cache')
        /\ DictValue(cache', StepKey) = last'.result
        /\ cache_timestamps'[StepKey] = now

\* C5 as stated: a lookup never returns an entry whose age has reached the
\* TTL (it removes the entry, counts a miss, recomputes and stores a fresh
\* entry with a new insertion time), and an expired entry is removed only by
\* a lookup of its own fingerprint
C5_ExpiredRemovedOnlyByOwnLookup ==
    [][/\ ExpiredLookup
       /\ \A p \in Profiles :
            (Expired(get_cache_key(p)) /\ Removed(get_cache_key(p)))
               => (RecommendStep /\ StepKey = get_cache_key(p))]_vars

\* C5, amended: the same for the lookup; an expired entry is removed only by
\* a lookup of its own fingerprint or, being the oldest entry, by the
\* capacity eviction of a store under another fingerprint
C5_ExpiredRecomputed ==
    [][/\ ExpiredLookup
       /\ \A p \in Profiles :
            (Expired(get_cache_key(p)) /\ Removed(get_cache_key(p)))
               => /\ RecommendStep
                  /\ \/ StepKey = get_cache_key(p)
                     \/ /\ OldestKey(cache) = get_cache_key(p)
                        /\ Len(cache) = CacheMax
                        /\ StepKey \notin DictKeys(cache)]_vars

\* the last call found its entry expired and stored a fresh one
C5_Witness ==
    /\ last.outcome = "expired"
    /\ last.at >= CacheTtl
    /\ get_cache_key(last.profile) \in DOMAIN cache_timestamps
    /\ cache_timestamps[get_cache_key(last.profile)] = last.at
    /\ DictValue(cache, get_cache_key(last.profile)) = last.result

\* the keys that a step removes from the cache
EvictedKeys == DictKeys(cache) \ DictKeys(cache')

Styles(result) == Cardinality({result[i].training_style : i \in 1..Len(result)})

\* C7 as stated: once a disliked record of user u is in the log, a recommend
\* call for a profile of u (apply_feedback and use_cache at their defaults)
\* returns a result computed from the feedback log as it stands at the call;
\* the calls considered ask for as many items as the call that stored the
\* cache entry, if there is one
C7_ResultFromCurrentLog ==
    [][(/\ CachedCallStep
        /\ last'.apply_feedback
        /\ last'.profile.user_id \in DOMAIN feedback_data
        /\ \E i \in 1..Len(feedback_data[last'.profile.user_id]) :
              feedback_data[last'.profile.user_id][i].feedback_type = "disliked"
        /\ StepKey \in DOMAIN stored => stored[StepKey].n = last'.n)
       => last'.result \in ComputedResults(transformer, program_features_df,
                                           programs_df, content_weight,
                                           feedback_data, last'.profile, last'.n,
                                           last'.content_weight, last'.diversify,
                                           last'.apply_feedback)]_vars

\* a step in which adjust_recommendation_score was called
AdjustStep == adjusted' # adjusted

\* the user's log holds a record of the type for the program
HasRecord(fd, user_id, program_id, feedback_type) ==
    /\ user_id \in DOMAIN fd
    /\ \E i \in 1..Len(fd[user_id]) :
          /\ fd[user_id][i].program_id = program_id
          /\ fd[user_id][i].feedback_type = feedback_type

\* C8: adjust returns base_score * 1.5 if the log of the user holds a liked
\* record for the program, otherwise * 0.3 if it holds a disliked record,
\* otherwise * 1.1 if it holds a completed record, otherwise base_score
\* (other record types and users without history change nothing)
C8_AdjustPriority ==
    [][AdjustStep =>
         LET u == adjusted'.user_id
             p == adjusted'.program_id
             tenths == IF HasRecord(feedback_data, u, p, "liked") THEN 15
                       ELSE IF HasRecord(feedback_data, u, p, "disliked") THEN 3
                       ELSE IF HasRecord(feedback_data, u, p, "completed") THEN 11
                       ELSE 10
         IN  adjusted'.result * 10 = adjusted'.base_score * tenths]_vars

\* adjust returned 1.5 times a positive base score for a program that the
\* user first disliked and then liked
C8_Witness ==
    /\ adjusted.base_score > 0
    /\ adjusted.result * 10 = adjusted.base_score * 15
    /\ adjusted.user_id = "u1"
    /\ feedback_data = [u \in {"u1"} |->
           <<[program_id |-> adjusted.program_id, feedback_type |-> "disliked"],
             [program_id |-> adjusted.program_id, feedback_type |-> "liked"]>>]

\* the feedback types recorded for a program, in order
HistoryOf(fd, user_id, program_id) ==
    IF user_id \notin DOMAIN fd THEN <<>>
    ELSE LET sel == SelectSeq(fd[user_id], LAMBDA e : e.program_id = program_id)
         IN  [i \in 1..Len(sel) |-> sel[i].feedback_type]

\* C9 as stated: of two candidates with the same base score and the same
\* prior feedback history, the one for which a liked record is recorded gets
\* a strictly greater adjusted score than the other, and the one for which a
\* disliked record is recorded a strictly smaller one, for every base score
\* and every prior history
C9_FeedbackEffectStrict ==
    [][\A u \in Users, p, q \in AdjustPrograms, b \in BaseScores :
         (/\ p # q
          /\ HistoryOf(feedback_data, u, p) = HistoryOf(feedback_data, u, q)
          /\ feedback_data' # feedback_data)
         => /\ feedback_data' = record_feedback(feedback_data, u, p, "liked")
               => adjust_recommendation_score(feedback_data', u, p, b)
                    > adjust_recommendation_score(feedback_data', u, q, b)
            /\ feedback_data' = record_feedback(feedback_data, u, p, "disliked")
               => adjust_recommendation_score(feedback_data', u, p, b)
                    < adjust_recommendation_score(feedback_data', u, q, b)]_vars

\* C10 as stated: with at least two training styles in the catalog, the K
\* items returned with diversify=true (K >= 2, cache not used) never have
\* fewer distinct training styles than the K items returned with
\* diversify=false for the same profile and feedback log
C10_DiversifyKeepsStyles ==
    [][(/\ RecommendStep /\ model_loaded
        /\ ~last'.use_cache /\ last'.diversify
        /\ last'.n >= 2 /\ Len(last'.result) = last'.n)
       => \A plain \in ComputedResults(transformer, program_features_df,
                                       programs_df, content_weight,
                                       feedback_data, last'.profile, last'.n,
                                       last'.content_weight, FALSE,
                                       last'.apply_feedback) :
             Len(plain) = last'.n => Styles(last'.result) >= Styles(plain)]_vars

\* a step in which UserFeedbackSystem.__init__ ran load_feedback
LoadStep == fb_outcome'.op = "load_feedback" /\ fb_outcome'.seq # fb_outcome.seq

\* C11: loading the store when the primary file is unreadable and there is no
\* readable backup completes without an error and leaves an empty log
C11_UnrecoverableLoadsEmpty ==
    [][(LoadStep /\ store_file.exists /\ ~Readable(store_file)
                 /\ ~Readable(backup_file))
       => (fb_outcome'.outcome = "returned" /\ feedback_data' = <<>>)]_vars

\* C12: loading the store when the primary file is unreadable and a readable
\* backup exists yields the backup's contents and no error, whether or not
\* the copy of the backup over the primary file succeeds
C12_BackupContentsLoaded ==
    [][(LoadStep /\ store_file.exists /\ ~Readable(store_file)
                 /\ Readable(backup_file))
       => (fb_outcome'.outcome = "returned"
           /\ feedback_data' = backup_file.data)]_vars

\* a step of a running save_feedback call
SaveStep == save_pc # "idle"

\* the step keeps the primary file or replaces it by the complete new snapshot
PrimaryOldOrNew ==
    \/ store_file' = store_file
    \/ store_file' = FileWith(feedback_data) /\ fb_outcome'.outcome = "returned"

\* C13 as stated: every step of save_feedback leaves the primary file as it
\* was or holding the complete new snapshot, and when the call raises the
\* temporary file is gone
C13_AtomicSaveTmpRemoved ==
    [][SaveStep =>
         /\ PrimaryOldOrNew
         /\ (fb_outcome'.outcome = "raised"
                => store_file' = store_file /\ tmp_file' = Absent)]_vars

\* C13 amended: every step of save_feedback leaves the primary file as it
\* was or holding the complete new snapshot; a failed write or rename is
\* followed by the removal of the temporary file, which stays behind only
\* if that removal fails too, and then the call raises with the primary
\* file unchanged
C13_AtomicSave ==
    [][SaveStep =>
         /\ PrimaryOldOrNew
         /\ (fb_outcome'.outcome = "raised"
                => store_file' = store_file /\ tmp_file' \in {Absent, tmp_file})
         /\ (save_pc = "cleanup"
                => fb_outcome'.outcome = "raised" /\ save_pc' = "idle")
         /\ (store_file' # store_file => tmp_file' = Absent)]_vars

\* a record_feedback call raised after an earlier one had saved: the primary
\* file holds the complete earlier snapshot and no temporary file is left
C13_Witness ==
    /\ fb_outcome.op = "record_feedback"
    /\ fb_outcome.outcome = "raised"
    /\ Readable(store_file)
    /\ store_file.data # feedback_data
    /\ LogSize(store_file.data) > 0
    /\ tmp_file = Absent

\* a step in which record_feedback appended its entry
RecordStep == fb_outcome'.op = "record_feedback" /\ fb_outcome'.seq # fb_outcome.seq

IsPrefix(s, t) == Len(s) <= Len(t) /\ \A i \in 1..Len(s) : s[i] = t[i]

\* the log of a user, empty if the user has none
LogOf(fd, user_id) == DictGet(fd, user_id, <<>>)

PreferenceLists == {"liked_programs", "completed_programs", "disliked_programs"}

\* record_feedback appended one record to one user's list and left the rest
RecordAppends ==
    \E u \in StoreUsers :
       /\ DOMAIN feedback_data' = DOMAIN feedback_data \cup {u}
       /\ Len(feedback_data'[u]) = Len(LogOf(feedback_data, u)) + 1
       /\ IsPrefix(LogOf(feedback_data, u), feedback_data'[u])
       /\ \A v \in DOMAIN feedback_data \ {u} :
             feedback_data'[v] = feedback_data[v]

\* every list of the log and every preference list is extended or kept
LogGrows ==
    \A u \in DOMAIN feedback_data :
       /\ u \in DOMAIN feedback_data'
       /\ IsPrefix(feedback_data[u], feedback_data'[u])
       /\ \A l \in PreferenceLists :
             IsPrefix(get_user_preferences(feedback_data, u)[l],
                      get_user_preferences(feedback_data', u)[l])

\* total_interactions of every user is the number of the user's records
InteractionsCounted ==
    \A u \in StoreUsers :
       DictGet(get_user_preferences(feedback_data, u), "total_interactions", 0)
          = DictGet(calls, u, 0)

\* C14: record_feedback adds exactly one record at the end of the user's list
\* and changes no other record; total_interactions of a user is the number
\* of records recorded for the user, and the liked, completed and disliked
\* lists only grow while the feedback system lives
C14_AppendOnly ==
    /\ []InteractionsCounted
    /\ [][(RecordStep => RecordAppends) /\ (~LoadStep => LogGrows)]_vars

\* a third record was appended: the second of one user, after one of the other
C14_Witness ==
    /\ fb_outcome.op = "record_feedback"
    /\ DOMAIN feedback_data = StoreUsers
    /\ \E u \in StoreUsers : Len(feedback_data[u]) = 2
    /\ \E u \in StoreUsers :
          get_user_preferences(feedback_data, u).liked_programs # <<>>

AllIdle == \A t \in Threads : threads[t].pc = "idle"

\* C15: no concurrent recommend call fails with a missing key, and when all
\* calls have finished every key of the cache has exactly one stored result
\* and exactly one timestamp
C15_ConcurrentCacheConsistent ==
    /\ \A t \in Threads : threads[t].outcome # "KeyError"
    /\ AllIdle =>
          /\ DictKeys(cache) = DOMAIN cache_timestamps
          /\ Cardinality(DictKeys(cache)) = Len(cache)

\* C16: whenever recommend is allowed to run (model_loaded), the transformer,
\* the encoded feature names, the program table and the program feature
\* table come from one and the same load_model call, and that call completed
C16_LoadedFromOneCall ==
    model_loaded =>
       /\ encoded_feature_names = transformer
       /\ programs_df = transformer
       /\ program_features_df = transformer
       /\ ~(loading.active /\ loading.m = transformer)

\* a request was answered
RequestStep == probe' # probe \/ RecommendStep

\* the body is malformed in one of the ways the claim lists
Malformed(body) ==
    \/ body.goals = <<>>
    \/ body.preferred_frequency # NoneNum
          /\ (body.preferred_frequency < 1 \/ body.preferred_frequency > 7)
    \/ body.fitness_level \notin VALID_FITNESS_LEVELS
    \/ \E i \in 1..Len(body.goals) : body.goals[i] \notin VALID_GOALS
    \/ body.equipment \notin VALID_EQUIPMENT
    \/ body.preferred_duration # None /\ body.preferred_duration \notin VALID_DURATIONS
    \/ body.preferred_style # None /\ body.preferred_style \notin VALID_TRAINING_STYLES

\* C17: a profile with empty goals, a frequency outside 1..7 or a value
\* outside the allowed lists is rejected with a ValidationError when it is
\* constructed, and no step of recommend (cache lookup, scoring, store)
\* runs on it
C17_MalformedRejected ==
    [][(RequestStep /\ probe'.op = "request" /\ Malformed(probe'.body))
       => /\ probe'.outcome = "ValidationError"
          /\ UNCHANGED <<modelVars, cacheVars, feedbackVars, last, stored>>]_vars

\* a body with an empty goals list was rejected after the cache had been
\* filled by a well-formed request
C17_Witness ==
    /\ probe.op = "request"
    /\ probe.body.goals = <<>>
    /\ probe.outcome = "ValidationError"
    /\ cache # <<>>
    /\ Returned(last)

\* the encoder does not know the equipment of the body, and the other fields
\* of the body are well-formed
UnknownEquipment(body) ==
    /\ body.equipment \notin FittedCategories(transformer, "equipment")
    /\ body.fitness_level \in VALID_FITNESS_LEVELS
    /\ body.goals # <<>>
    /\ \A i \in 1..Len(body.goals) : body.goals[i] \in VALID_GOALS
    /\ body.preferred_duration = None
    /\ body.preferred_frequency = NoneNum
    /\ body.preferred_style = None

\* C18: a request whose profile carries a categorical value the encoder does
\* not know (equipment) does not raise: the value is encoded as the all-zero
\* indicator of its feature group and recommend returns a ranked result
C18_UnknownValueRanked ==
    [][(RequestStep /\ probe'.op = "request" /\ UnknownEquipment(probe'.body))
       => /\ probe'.outcome = "accepted"
          /\ \A c \in DOMAIN probe'.encoded.equipment : probe'.encoded.equipment[c] = 0
          /\ Returned(last')
          /\ last'.result # <<>>]_vars

\* C19: process_user_features gives time_per_workout = 60 when
\* preferred_duration is missing, workout_frequency = 4 when
\* preferred_frequency is missing and training_style = "Other" when
\* preferred_style is missing, and computes the intensity score from these
\* values
C19_DomainDefaults ==
    probe.op = "process_user_features" =>
       /\ probe.user_profile.preferred_duration = None
             => probe.result.time_per_workout = 60
       /\ probe.user_profile.preferred_frequency = NoneNum
             => probe.result.workout_frequency = 4
       /\ probe.user_profile.preferred_style = None
             => probe.result.training_style = "Other"
       /\ probe.result.intensity_score =
             calculate_intensity_score(probe.result.workout_frequency,
                                       probe.result.time_per_workout,
                                       probe.result.primary_level)

\* the position of a program in the catalog (the feature table)
CatalogIndex(m, program_id) ==
    CHOOSE i \in 1..Len(FeaturesIndex(m)) : FeaturesIndex(m)[i] = program_id

\* program a comes before program b: higher similarity, or equal similarity
\* and earlier in the catalog
RanksBefore(m, profile, a, b) ==
    LET sa == CosineSimilarity(m, m, profile, CatalogIndex(m, a))
        sb == CosineSimilarity(m, m, profile, CatalogIndex(m, b))
    IN  sa > sb \/ (sa = sb /\ CatalogIndex(m, a) < CatalogIndex(m, b))

\* C20: content_based_recommendations returns min(top_n, catalog size)
\* programs, those with the highest similarity, by similarity descending,
\* and of two programs with equal similarity the one earlier in the catalog
\* comes first, in the list and at the cut-off
C20_TopNStable ==
    probe.op = "content_based_recommendations" =>
       LET ids == [i \in 1..Len(probe.result) |-> probe.result[i].program_id]
       IN  /\ Len(ids) = Min2(probe.top_n, Len(FeaturesIndex(probe.m)))
           /\ \A i \in 1..(Len(ids) - 1) :
                 RanksBefore(probe.m, probe.profile, ids[i], ids[i + 1])
           /\ \A a \in Range(ids), b \in Range(FeaturesIndex(probe.m)) \ Range(ids) :
                 RanksBefore(probe.m, probe.profile, a, b)

\* C21: with an empty program catalog content_based_recommendations returns
\* an empty list and recommend returns an empty result, neither raising; and
\* content_based_recommendations returns an empty list when the user id is
\* absent from the user feature table
C21_EmptyCatalogReturnsEmpty ==
    probe.op = "catalog" =>
       /\ probe.user_id \notin Range(probe.user_index)
             => probe.direct = [raised |-> "none", returned |-> 0]
       /\ Len(probe.catalog) = 0
             => /\ probe.direct = [raised |-> "none", returned |-> 0]
                /\ probe.recommend = [raised |-> "none", returned |-> 0]

\* the values of column field in the rows before position i
SeenBefore(rows, i, field) == {rows[j][field] : j \in 1..(i - 1)}

\* the numerator of the penalty of row i over PenaltyUnit: 70/100 for a
\* training style seen before, 70/100 for a primary goal seen before,
\* 170/200 for an equipment seen before
PenaltyOf(rows, i) ==
    (IF rows[i].training_style \in SeenBefore(rows, i, "training_style") THEN 70 ELSE 100)
    * (IF rows[i].primary_goal \in SeenBefore(rows, i, "primary_goal") THEN 70 ELSE 100)
    * (IF rows[i].equipment \in SeenBefore(rows, i, "equipment") THEN 170 ELSE 200)

PenaltyUnit == 100 * 100 * 200

\* the row of the result for the program of row i
ResultRow(i) ==
    CHOOSE r \in Range(probe.result) : r.program_id = probe.recommendations[i].program_id

\* the result holds every incoming program once, with its attributes, and is
\* ordered by the adjusted percentage descending
FullListDescending ==
    /\ Len(probe.result) = Len(probe.recommendations)
    /\ \A i \in 1..Len(probe.recommendations) :
          /\ \E r \in Range(probe.result) :
                r.program_id = probe.recommendations[i].program_id
          /\ [ResultRow(i) EXCEPT !.match_percentage = 0]
               = [probe.recommendations[i] EXCEPT !.match_percentage = 0]
    /\ \A i \in 1..(Len(probe.result) - 1) :
          probe.result[i].match_percentage >= probe.result[i + 1].match_percentage

\* C22 as stated: the adjusted value of every candidate is its incoming value
\* times (1 - f) for a style seen earlier, times (1 - f) for a goal seen
\* earlier, times (1 - 0.5 f) for an equipment seen earlier (f = 0.3); the
\* first candidate is unchanged; the result is the full list by adjusted
\* value descending
C22_DiversifyExactProduct ==
    probe.op = "diversify" =>
       /\ FullListDescending
       /\ \A i \in 1..Len(probe.recommendations) :
             ResultRow(i).match_percentage * PenaltyUnit
               = probe.recommendations[i].match_percentage
                   * PenaltyOf(probe.recommendations, i)

\* value is int(percentage * penalty): the product cut toward zero; an
\* unpenalized row is unchanged; where the exact product of a penalized row
\* is an integer, the double product may fall just short of it and the
\* result be one less in magnitude
TruncatedProduct(percentage, penalty, value) ==
    LET magnitude == IF percentage >= 0 THEN percentage ELSE -percentage
        cut == IF value >= 0 THEN value ELSE -value
    IN  /\ percentage >= 0 => value >= 0
        /\ percentage <= 0 => value <= 0
        /\ penalty = PenaltyUnit => value = percentage
        /\ cut * PenaltyUnit <= magnitude * penalty
        /\ magnitude * penalty <= (cut + 1) * PenaltyUnit
        /\ magnitude * penalty = (cut + 1) * PenaltyUnit => penalty # PenaltyUnit

\* C22 (amended): as C22, with the adjusted value the match_percentage
\* replaced by int(match_percentage * penalty)
C22_DiversifyTruncated ==
    probe.op = "diversify" =>
       /\ FullListDescending
       /\ \A i \in 1..Len(probe.recommendations) :
             TruncatedProduct(probe.recommendations[i].match_percentage,
                              PenaltyOf(probe.recommendations, i),
                              ResultRow(i).match_percentage)

\* a walk in which a row repeats the style, a row repeats goal and equipment,
\* and the penalties change the order
C22_Witness ==
    /\ probe.op = "diversify"
    /\ Len(probe.recommendations) = 3
    /\ PenaltyOf(probe.recommendations, 2) = 100 * 70 * 170
    /\ PenaltyOf(probe.recommendations, 3) = 70 * 100 * 200
    /\ probe.result[2].program_id = probe.recommendations[3].program_id
    /\ probe.result[2].match_percentage < probe.recommendations[3].match_percentage

\* the goals the two lists of the probe share
SharedGoals == Range(probe.user_goals) \cap Range(probe.program_goals)

\* the scores (hundredths) the pairs of a user goal and a program goal give:
\* 70 for a pair related in the relationship table in either direction, and
\* the pair's entry of the compatibility table in either direction
PairScores ==
    UNION {{IF \E a, b \in {u, p} :
                  a \in DOMAIN GOAL_RELATIONSHIPS /\ b \in GOAL_RELATIONSHIPS[a]
            THEN 70 ELSE 0}
           \cup {GOAL_COMPATIBILITY[t] : t \in {<<u, p>>, <<p, u>>} \cap DOMAIN GOAL_COMPATIBILITY}
           : u \in Range(probe.user_goals), p \in Range(probe.program_goals)}

\* C23: the rule score is in [0,1]; 0 if either list is empty;
\* min(1, 0.5 + 0.3 k) if the lists share k > 0 goals; otherwise the maximum
\* over all pairs of 0.7 for a related pair and of the pair's compatibility
\* score, and 0 when no pair is related or compatible
C23_RuleScore ==
    probe.op = "goal_score" =>
       /\ probe.score \in 0..100
       /\ (probe.user_goals = <<>> \/ probe.program_goals = <<>>) => probe.score = 0
       /\ SharedGoals # {}
             => probe.score = Min2(100, 50 + 30 * Cardinality(SharedGoals))
       /\ (probe.user_goals # <<>> /\ probe.program_goals # <<>> /\ SharedGoals = {})
             => /\ probe.score \in PairScores
                /\ \A s \in PairScores : probe.score >= s

\* a related pair found only in the reverse direction of the table
C23_Witness ==
    /\ probe.op = "goal_score"
    /\ probe.user_goals = <<"Yoga", "General Fitness">>
    /\ probe.program_goals = <<"Strength">>
    /\ probe.score = 70

\* C26: a program that shares at least one goal with the user has a rule score
\* not below that of any program that shares none
C26_DirectOverlapFirst ==
    (probe.op = "goal_score" /\ SharedGoals # {}) =>
       \A other_goals \in GoalLists :
          Range(probe.user_goals) \cap Range(other_goals) = {}
             => probe.score >= calculate_goal_match_score(probe.user_goals, other_goals)

\* the results the call recorded in last' could have computed from the
\* current model and feedback log, without the cache
Uncached ==
    ComputedResults(transformer, program_features_df, programs_df, content_weight,
                    feedback_data, last'.profile, last'.n, last'.content_weight,
                    last'.diversify, last'.apply_feedback)

\* C24: with an unchanged feedback log, a recommend call with use_cache=true
\* returns (from an entry within its TTL, or computed) a list that the same
\* call with use_cache=false can return, whatever earlier calls for the same
\* profile with another n or diversify have stored in the cache
C24_CacheTransparent ==
    [][(CachedCallStep /\ Returned(last')) => last'.result \in Uncached]_vars

\* C27: the fingerprints in the result cache are the fingerprints in the
\* timestamp map
C27_CacheKeysAreTimestampKeys ==
    DictKeys(cache) = DOMAIN cache_timestamps

\* a miss after which the cache is at capacity with more misses counted than
\* entries kept: an entry was evicted or had expired
C27_Witness ==
    /\ last.outcome \in {"miss", "expired"}
    /\ Len(cache) = CacheMax
    /\ cache_misses > CacheMax
    /\ DOMAIN cache_timestamps = DictKeys(cache)

\* what get_cache_stats reports, against the counters and the cache
StatsConsistent ==
    /\ get_cache_stats.hits = cache_hits
    /\ get_cache_stats.misses = cache_misses
    /\ get_cache_stats.total_requests = cache_hits + cache_misses
    /\ cache_hits + cache_misses = 0 => get_cache_stats.hit_rate_percent = 0
    /\ get_cache_stats.cache_size = Cardinality(DictKeys(cache))

\* a cached call on a loaded model counts one hit or one miss, an expired
\* lookup a miss; no other step changes a counter
CountsOne ==
    /\ CachedCallStep =>
          \/ cache_hits' = cache_hits + 1 /\ cache_misses' = cache_misses
          \/ cache_hits' = cache_hits /\ cache_misses' = cache_misses + 1
    /\ (CachedCallStep /\ last'.outcome = "expired") => cache_misses' = cache_misses + 1
    /\ ~CachedCallStep => UNCHANGED <<cache_hits, cache_misses>>

\* C28: every recommend call with use_cache=true on a loaded model adds one
\* to exactly one of hits and misses (an expired lookup to misses) and
\* nothing else changes them; get_cache_stats reports
\* total_requests = hits + misses, a hit rate of 0 without such calls and
\* cache_size = the number of stored entries
C28_CountersConsistent ==
    /\ []StatsConsistent
    /\ [][CountsOne]_vars

\* a miss, then an expired lookup of the same entry
C28_Witness ==
    /\ last.outcome = "expired"
    /\ cache_hits = 0
    /\ cache_misses = 2
    /\ get_cache_stats.total_requests = 2
    /\ get_cache_stats.cache_size = 1

\* C29: a recommend call with use_cache=false on a loaded model leaves the
\* cache, the timestamp map and both counters unchanged and returns a
\* computed result, never a cached entry
C29_UncachedCallFrame ==
    [][(RecommendStep /\ model_loaded /\ ~last'.use_cache)
         => /\ UNCHANGED <<cache, cache_timestamps, cache_hits, cache_misses>>
            /\ last'.outcome = "computed"
            /\ last'.result \in Uncached]_vars

\* an uncached call for a profile that has a valid entry whose rows differ
\* from the rows returned
C29_Witness ==
    /\ last.op = "recommend" /\ ~last.use_cache /\ last.outcome = "computed"
    /\ last.at = now
    /\ get_cache_key(last.profile) \in DictKeys(cache)
    /\ CacheEntryValid(cache_timestamps[get_cache_key(last.profile)], now)
    /\ CachedResult(DictValue(cache, get_cache_key(last.profile)), last.n) # last.result

\* C25: after a record_feedback call, returned or raised, the in-memory log
\* is the log in the primary store file (no file: the empty log); a call
\* whose save failed has left the log as it was before the call
C25_RecordAllOrNothing ==
    (/\ save_pc = "idle"
     /\ fb_outcome.op = "record_feedback"
     /\ ~store_file.exists \/ Readable(store_file))
       => feedback_data = IF store_file.exists THEN store_file.data ELSE <<>>

\* frequency + d + l of the probe: a missing frequency counts 4, missing
\* minutes count 60; d is 0 below 45 minutes, 1 below 60, 2 below 90, else 3;
\* l is 0, 1, 2, 3 for Beginner, Novice, Intermediate, Advanced
IntensitySum ==
    LET f == IF probe.workout_frequency = NoneNum THEN 4 ELSE probe.workout_frequency
        t == IF probe.time_per_workout = NoneNum THEN 60 ELSE probe.time_per_workout
        d == IF t < 45 THEN 0 ELSE IF t < 60 THEN 1 ELSE IF t < 90 THEN 2 ELSE 3
        l == CASE probe.primary_level = "Beginner" -> 0
               [] probe.primary_level = "Novice" -> 1
               [] probe.primary_level = "Intermediate" -> 2
               [] probe.primary_level = "Advanced" -> 3
    IN  f + d + l

\* C30: calculate_intensity_score(frequency, duration, level) is
\* min(10, frequency + d + l), with a missing frequency replaced by 4 and a
\* missing duration by 60, and lies in [0,10] for frequency 1..7
C30_IntensityScore ==
    (probe.op = "intensity" /\ probe.primary_level \in VALID_FITNESS_LEVELS) =>
       /\ probe.score = IF IntensitySum < 10 THEN IntensitySum ELSE 10
       /\ probe.score \in 0..10

\* the defaults at work, and a sum above 10 capped
C30_Witness ==
    /\ probe.op = "intensity"
    /\ probe.workout_frequency = NoneNum
    /\ probe.time_per_workout = NoneNum
    /\ probe.primary_level = "Advanced"
    /\ probe.score = 9

====
